---- MODULE Spec2Model ----
(***************************************************************************)
(* Model of the content-generation service layer of the note tools:        *)
(* the backend factories (createLLMService, createGeminiService), the      *)
(* converter's main, the local fallback backend (MockLLMService), the      *)
(* prompt builder (buildConversionPrompt), the external-tool backend       *)
(* (GeminiService) and the retry and error handling of the hosted APIs.    *)
(*                                                                         *)
(* JavaScript values are tagged records; strings are sequences of text     *)
(* atoms (one letter per atom wherever letter case matters).               *)
(***************************************************************************)
EXTENDS Integers, Sequences, FiniteSets, TLC

VARIABLES
    fcall,      \* the factory call under way: function name and arguments
    fpc,        \* "pending" | "returned" | "thrown"
    service,    \* the backend instance the factory returned
    error,      \* the error the factory threw
    mpc,        \* main: the statement main is at
    menv,       \* main: the process environment and the notes directory
    mService,   \* main: geminiService
    mTwitter,   \* main: twitterService (null or an instance)
    files,      \* main: the notes still to process
    cur,        \* main: the note processNote is working on
    listed,     \* main: the notes directory has been listed
    reads,      \* main: number of note files read
    writes,     \* main: number of note files written
    converts,   \* main: number of convertHtmlToMarkdown calls
    exitCode,   \* main: -1 while running, then the exit code
    threw,      \* main: the error createGeminiService threw, if any
    html,       \* local fallback: the markup handed to convertHtmlToMarkdown
    cpc,        \* local fallback: "pending" | "resolved" | "rejected"
    markdown,   \* local fallback: the text the call resolved with
    instances,  \* local fallback: the MockLLMService objects in use
    calls,      \* local fallback: the calls made on them so far, in order
    pHtml,      \* prompt builder: the markup handed to buildConversionPrompt
    ppc,        \* prompt builder: "pending" | "returned"
    prompt,     \* prompt builder: the prompt returned
    tSelf,      \* external tool: the GeminiService instance
    tHtml,      \* external tool: the markup handed to convertHtmlToMarkdown
    tpc,        \* external tool: "start" | "running" | "resolved" | "rejected"
    tPrompt,    \* external tool: the prompt built
    tCommand,   \* external tool: the command line handed to exec
    tStdin,     \* external tool: what exec wrote to the child's standard input
    tEnd,       \* external tool: the child and how exec ended for it
    tResult,    \* external tool: the text the call resolved with
    tError,     \* external tool: the error the call rejected with
    tWarned,    \* external tool: a warning for stderr was logged
    aKind,      \* hosted APIs: "hosted" | "second"
    apc,        \* hosted APIs: "request" | "backoff" | "retry" | "resolved" | "rejected"
    aResponses, \* hosted APIs: the provider's answers to the first and second request
    aRequests,  \* hosted APIs: requests made
    aDelay,     \* hosted APIs: the delay to back off by, in seconds
    aSlept,     \* hosted APIs: seconds slept
    aResult,    \* hosted APIs: the text the call resolved with
    aError,     \* hosted APIs: the error the call rejected with
    nVersion,   \* converters: "articles" | "inplace" | "single"
    nConfig,    \* converters: config.dryRun, config.deleteLinks, a twitterService
    nInitial,   \* converters: the notes of the directory at the start
    nFiles,     \* converters: the notes of the directory
    nOutput,    \* converters: the names of the files in the output directory
    npc,        \* converters: "note" | "url" | "save" | "done"
    nRun,       \* converters: the run of main under way
    nIdx,       \* converters: the note processNote is at
    nUrls,      \* converters: the URLs of the note still to go through
    nProcessed, \* converters: processedUrls
    nOriginal,  \* converters: originalContent
    nModified,  \* converters: modifiedContent
    nCount,     \* converters: replacementCount
    nExit,      \* converters: -1 while running, then the exit code
    nTrace,     \* converters: what was read, visited, called, failed and saved
    xList,      \* extractor: the lines of the todo list at the start
    xInitial,   \* extractor: the notes of the directory at the start
    xNotes,     \* extractor: the notes of the directory, by file name
    xFile,      \* extractor: the lines of the todo file
    xpc,        \* extractor: "line" | "url" | "resolved" | "rejected"
    xi,         \* extractor: the line the loop is at
    xUrls,      \* extractor: the URLs of the line still to go through
    xKeep,      \* extractor: linesToKeep
    xFailed,    \* extractor: the lines and URLs createNoteForUrl threw for
    xPushes,    \* extractor: how often each line was pushed to linesToKeep
    rShapes,    \* archive: the lines of the todo list with what they are
    rToday,     \* archive: getTodayDate()
    rInitial,   \* archive: the todo file and the archives at the start
    rTodo,      \* archive: the todo file
    rDir,       \* archive: the archive file of each date
    rpc,        \* archive: "read" | "check" | "archive" | "todo" | settled
    rContent,   \* archive: content
    rResult,    \* archive: the result returned
    wVersion,   \* wizard: "readline" | "inquirer"
    wContent,   \* wizard: envContent
    wInitial,   \* wizard: .env at the start
    wEnv,       \* wizard: .env
    wBackup,    \* wizard: .env.backup
    wAnswer,    \* wizard: the answer to the question whether to overwrite
    wShould,    \* wizard: shouldWrite
    wWritten,   \* wizard: .env has been written
    wpc         \* wizard: "access" | "ask" | "backup" | "write" | settled

factoryVars == <<fcall, fpc, service, error>>

mainVars == <<mpc, menv, mService, mTwitter, files, cur, listed, reads, writes,
              converts, exitCode, threw>>

mockVars == <<html, cpc, markdown, instances, calls>>

promptVars == <<pHtml, ppc, prompt>>

toolVars == <<tSelf, tHtml, tpc, tPrompt, tCommand, tStdin, tEnd, tResult, tError,
              tWarned>>

\* the state of the parts added after the first three
apiVars == <<aKind, apc, aResponses, aRequests, aDelay, aSlept, aResult, aError>>

notesVars == <<nVersion, nConfig, nInitial, nFiles, nOutput, npc, nRun, nIdx, nUrls,
               nProcessed, nOriginal, nModified, nCount, nExit, nTrace>>

extractVars == <<xList, xInitial, xNotes, xFile, xpc, xi, xUrls, xKeep, xFailed,
                 xPushes>>

archiveVars == <<rShapes, rToday, rInitial, rTodo, rDir, rpc, rContent, rResult>>

wizardVars == <<wVersion, wContent, wInitial, wEnv, wBackup, wAnswer, wShould,
                wWritten, wpc>>

\* the state of the parts added last
laterVars == <<notesVars, extractVars, archiveVars, wizardVars>>

restVars == <<promptVars, toolVars, apiVars, laterVars>>

vars == <<factoryVars, mainVars, mockVars, restVars>>

-----------------------------------------------------------------------------
(* Bounds *)

\* Letter casings tried per word: every casing with at most MaxUpper
\* upper-case letters, and the all-upper-case one.
MaxUpper == 1

\* Number of notes in the notes directory
MaxNotes == 2

\* Number of element nodes in a document handed to the local fallback
MaxNodes == 2

\* Pieces a markup handed to the prompt builder is made of
MaxPieces == 2

\* Calls made one after the other on the local fallback's instances
MaxCalls == 3

\* Pieces a note handed to a converter is made of
MaxItems == 2

\* Runs of a converter over the same notes directory
MaxRuns == 2

\* Lines a todo list is made of
MaxLines == 3

-----------------------------------------------------------------------------
(* JavaScript values *)

Undefined == [t |-> "undefined"]
Null == [t |-> "null"]
Bool(b) == [t |-> "boolean", b |-> b]
Str(s) == [t |-> "string", s |-> s]

IsString(v) == v.t = "string"

\* ToBoolean: undefined, null, false and '' are falsy
Truthy(v) ==
    CASE v.t = "undefined" -> FALSE
      [] v.t = "null" -> FALSE
      [] v.t = "boolean" -> v.b
      [] v.t = "string" -> v.s # <<>>

\* a destructuring default applies to undefined only
Default(v, d) == IF v.t = "undefined" THEN d ELSE v

\* a || b
Or(a, b) == IF Truthy(a) THEN a ELSE b

UpperLetters ==
    <<"A","B","C","D","E","F","G","H","I","J","K","L","M",
      "N","O","P","Q","R","S","T","U","V","W","X","Y","Z">>

LowerLetters ==
    <<"a","b","c","d","e","f","g","h","i","j","k","l","m",
      "n","o","p","q","r","s","t","u","v","w","x","y","z">>

LowerChar(c) ==
    IF \E i \in DOMAIN UpperLetters : UpperLetters[i] = c
    THEN LowerLetters[CHOOSE i \in DOMAIN UpperLetters : UpperLetters[i] = c]
    ELSE c

UpperChar(c) ==
    IF \E i \in DOMAIN LowerLetters : LowerLetters[i] = c
    THEN UpperLetters[CHOOSE i \in DOMAIN LowerLetters : LowerLetters[i] = c]
    ELSE c

\* String.prototype.toLowerCase / toUpperCase on the character sequence
toLowerCase(s) == [i \in DOMAIN s |-> LowerChar(s[i])]

toUpperCase(s) == [i \in DOMAIN s |-> UpperChar(s[i])]

\* Array.prototype.includes
includes(list, w) == \E i \in DOMAIN list : list[i] = w

-----------------------------------------------------------------------------
(* Words *)

W_api == <<"a","p","i">>
W_mock == <<"m","o","c","k">>
W_ollama == <<"o","l","l","a","m","a">>
W_openrouter == <<"o","p","e","n","r","o","u","t","e","r">>
W_cli == <<"c","l","i">>
W_gemini == <<"g","e","m","i","n","i">>
W_kiro == <<"k","i","r","o">>
W_claude == <<"c","l","a","u","d","e">>
W_bogus == <<"x","y">>
W_key == <<"k","e","y">>

\* the letter casings of a word that the inputs are drawn from
Casings(w) ==
    { [i \in DOMAIN w |-> IF i \in S THEN UpperChar(w[i]) ELSE w[i]] :
        S \in { T \in SUBSET DOMAIN w : Cardinality(T) <= MaxUpper \/ T = DOMAIN w } }

-----------------------------------------------------------------------------
(* Errors and backend instances *)

NoError == [name |-> "none"]

\* new Error(message); the message is kept in parts: the field or value it is
\* about, the fixed text, the quoted offending value, the enumerated names
Err(subject, text, value, list) ==
    [name |-> "Error", subject |-> subject, text |-> text, value |-> value, list |-> list]

\* null.toLowerCase() and the like
TypeErr(subject) ==
    [name |-> "TypeError", subject |-> subject, text |-> "Cannot read properties",
     value |-> <<>>, list |-> <<>>]

NoService == [class |-> "none"]

Returned(s) == [service |-> s, error |-> NoError]

Thrown(e) == [service |-> NoService, error |-> e]

\* the methods an instance of each class answers to; every backend class
\* extends LLMService and overrides convertHtmlToMarkdown
Methods(class) ==
    IF class \in {"MockLLMService", "GeminiApiService", "OllamaService",
                  "OpenRouterService", "MockGeminiService", "GeminiService"}
    THEN {"convertHtmlToMarkdown", "buildConversionPrompt", "getServiceName"}
    ELSE {}

newMockLLMService == Returned([class |-> "MockLLMService"])

\* constructor(apiKey, modelName = 'gemini-1.5-flash'): throws without a key
newGeminiApiService(apiKey, modelName) ==
    IF ~Truthy(apiKey)
    THEN Thrown(Err("GEMINI_API_KEY", "is required", <<>>, <<>>))
    ELSE Returned([class |-> "GeminiApiService", apiKey |-> apiKey,
                   modelName |-> Default(modelName, Str(<<"gemini-1.5-flash">>))])

\* constructor(baseUrl, model)
newOllamaService(baseUrl, model) ==
    Returned([class |-> "OllamaService",
              baseUrl |-> Default(baseUrl, Str(<<"http://localhost:11434">>)),
              model |-> Default(model, Str(<<"llama2">>))])

\* constructor(apiKey, model = 'openai/gpt-3.5-turbo'): throws without a key
newOpenRouterService(apiKey, model) ==
    IF ~Truthy(apiKey)
    THEN Thrown(Err("OPENROUTER_API_KEY", "is required for OpenRouterService", <<>>, <<>>))
    ELSE Returned([class |-> "OpenRouterService", apiKey |-> apiKey,
                   model |-> Default(model, Str(<<"openai/gpt-3.5-turbo">>)),
                   baseUrl |-> Str(<<"https://openrouter.ai/api/v1">>)])

-----------------------------------------------------------------------------
(* createLLMService (llmServiceFactory.js) *)

\* a configuration object; a field that is not given reads as undefined
LLMConfig(useMock, serviceType, apiKey, modelName, ollamaModel, openrouterApiKey) ==
    [t |-> "object", useMock |-> useMock, serviceType |-> serviceType,
     apiKey |-> apiKey, modelName |-> modelName, ollamaBaseUrl |-> Undefined,
     ollamaModel |-> ollamaModel, openrouterApiKey |-> openrouterApiKey,
     openrouterModel |-> Undefined]

EmptyLLMConfig == LLMConfig(Undefined, Undefined, Undefined, Undefined, Undefined, Undefined)

\* the message as it read before the openrouter case was added
LLMValidList_Stale == <<W_api, W_mock, W_ollama>>

\* the names the default branch's message enumerates
LLMValidList == <<W_api, W_mock, W_ollama, W_openrouter>>

\* the boolean taken for a configuration object: its fields all read undefined
LLMNormalize_NoLegacy(configOrUseMock) ==
    IF configOrUseMock.t = "boolean"
    THEN EmptyLLMConfig
    ELSE Default(configOrUseMock, EmptyLLMConfig)

\* the legacy boolean signature is turned into a configuration first
LLMNormalize(configOrUseMock) ==
    IF configOrUseMock.t = "boolean"
    THEN [EmptyLLMConfig EXCEPT
            !.useMock = configOrUseMock,
            !.serviceType = IF configOrUseMock.b THEN Str(W_mock) ELSE Str(W_api)]
    ELSE Default(configOrUseMock, EmptyLLMConfig)

\* the switch comparing serviceType as given
LLMKind_AsGiven(serviceType) == serviceType.s

\* serviceType.toLowerCase(), the value the switch compares
LLMKind(serviceType) == toLowerCase(serviceType.s)

\* if (!apiKey)
LLMApiKeyMissing(apiKey) == ~Truthy(apiKey)

\* if (openrouterApiKey == null)
LLMOpenrouterKeyMissing_Nullish(openrouterApiKey) ==
    openrouterApiKey.t \in {"undefined", "null"}

\* if (!openrouterApiKey)
LLMOpenrouterKeyMissing(openrouterApiKey) == ~Truthy(openrouterApiKey)

\* if (useMock === true)
LLMUseMock_Strict(useMock) == useMock.t = "boolean" /\ useMock.b

\* if (useMock)
LLMUseMock(useMock) == Truthy(useMock)

\* the switch with a case for the external tool as well
LLMDispatch_WithCli(serviceType, c) ==
    IF ~IsString(serviceType) THEN Thrown(TypeErr("toLowerCase"))
    ELSE LET kind == LLMKind(serviceType) IN
        CASE kind = W_mock -> newMockLLMService
          [] kind = W_api ->
                IF LLMApiKeyMissing(c.apiKey)
                THEN Thrown(Err("apiKey", "is required for API-based service", <<>>, <<>>))
                ELSE newGeminiApiService(c.apiKey, c.modelName)
          [] kind = W_ollama -> newOllamaService(c.ollamaBaseUrl, c.ollamaModel)
          [] kind = W_openrouter ->
                IF LLMOpenrouterKeyMissing(c.openrouterApiKey)
                THEN Thrown(Err("openrouterApiKey", "is required for OpenRouter service",
                                <<>>, <<>>))
                ELSE newOpenRouterService(c.openrouterApiKey, c.openrouterModel)
          [] kind = W_cli ->
                Returned([class |-> "GeminiService", cliCommand |-> Str(W_gemini),
                          toolType |-> Str(W_gemini)])
          [] OTHER ->
                Thrown(Err("serviceType", "Invalid serviceType. Must be one of",
                           serviceType.s, LLMValidList))

\* the switch on serviceType.toLowerCase(); c holds the destructured fields
LLMDispatch(serviceType, c) ==
    IF ~IsString(serviceType) THEN Thrown(TypeErr("toLowerCase"))
    ELSE LET kind == LLMKind(serviceType) IN
        CASE kind = W_mock -> newMockLLMService
          [] kind = W_api ->
                IF LLMApiKeyMissing(c.apiKey)
                THEN Thrown(Err("apiKey", "is required for API-based service", <<>>, <<>>))
                ELSE newGeminiApiService(c.apiKey, c.modelName)
          [] kind = W_ollama -> newOllamaService(c.ollamaBaseUrl, c.ollamaModel)
          [] kind = W_openrouter ->
                IF LLMOpenrouterKeyMissing(c.openrouterApiKey)
                THEN Thrown(Err("openrouterApiKey", "is required for OpenRouter service",
                                <<>>, <<>>))
                ELSE newOpenRouterService(c.openrouterApiKey, c.openrouterModel)
          [] OTHER ->
                Thrown(Err("serviceType", "Invalid serviceType. Must be one of",
                           serviceType.s, LLMValidList))

createLLMService(configOrUseMock) ==
    LET config == LLMNormalize(configOrUseMock)
        useMock == Default(config.useMock, Bool(FALSE))
        serviceType == Default(config.serviceType, Str(W_api))
        apiKey == Default(config.apiKey, Null)
        openrouterApiKey == Default(config.openrouterApiKey, Null)
    IN  IF LLMUseMock(useMock)
        THEN newMockLLMService
        ELSE LLMDispatch(serviceType,
                         [config EXCEPT !.apiKey = apiKey,
                                        !.openrouterApiKey = openrouterApiKey])

-----------------------------------------------------------------------------
(* createGeminiService (geminiService.js): the configuration version and   *)
(* the older three-argument version                                         *)

newMockGeminiService == Returned([class |-> "MockGeminiService"])

\* constructor(cliCommand = 'gemini', toolType = 'gemini')
newGeminiService(cliCommand, toolType) ==
    LET tt == Default(toolType, Str(W_gemini)) IN
    IF ~IsString(tt) THEN Thrown(TypeErr("toLowerCase"))
    ELSE Returned([class |-> "GeminiService",
                   cliCommand |-> Default(cliCommand, Str(W_gemini)),
                   toolType |-> Str(toLowerCase(tt.s))])

GeminiConfig(useMock, serviceType, apiKey, cliCommand, toolType) ==
    [t |-> "object", useMock |-> useMock, serviceType |-> serviceType,
     apiKey |-> apiKey, modelName |-> Undefined,
     cliCommand |-> cliCommand, toolType |-> toolType]

EmptyGeminiConfig == GeminiConfig(Undefined, Undefined, Undefined, Undefined, Undefined)

\* const validToolTypes = ['gemini', 'kiro', 'claude']
validToolTypes == <<W_gemini, W_kiro, W_claude>>

\* the names the default branch's message enumerates
GeminiValidList == <<W_api, W_cli, W_mock>>

\* the check of the command and of the tool type, and the construction
GeminiCliCase(finalCliCommand, finalToolType) ==
    IF ~Truthy(finalCliCommand)
    THEN Thrown(Err("CLI_COMMAND", "is required when not using mock service", <<>>, <<>>))
    ELSE IF ~IsString(finalToolType) THEN Thrown(TypeErr("toLowerCase"))
    ELSE LET normalizedToolType == toLowerCase(finalToolType.s) IN
        IF ~includes(validToolTypes, normalizedToolType)
        THEN Thrown(Err("CLI_TOOL_TYPE", "Invalid CLI_TOOL_TYPE. Must be one of",
                        finalToolType.s, validToolTypes))
        ELSE newGeminiService(finalCliCommand, Str(normalizedToolType))

\* const finalCliCommand = configCliCommand || cliCommand
GeminiFinalCliCommand(configCliCommand, cliCommand) == Or(configCliCommand, cliCommand)

\* const finalToolType = configToolType || toolType
GeminiFinalToolType(configToolType, toolType) == Or(configToolType, toolType)

GeminiNormalize(configOrUseMock, cliCommand, toolType) ==
    IF configOrUseMock.t = "boolean"
    THEN GeminiConfig(configOrUseMock, Str(W_cli), Undefined, cliCommand, toolType)
    ELSE Default(configOrUseMock, EmptyGeminiConfig)

createGeminiService(configOrUseMock, cliCommandArg, toolTypeArg) ==
    LET cliCommand == Default(cliCommandArg, Str(W_gemini))
        toolType == Default(toolTypeArg, Str(W_gemini))
        config == GeminiNormalize(configOrUseMock, cliCommand, toolType)
        useMock == Default(config.useMock, Bool(FALSE))
        serviceType == Default(config.serviceType, Str(W_api))
        apiKey == Default(config.apiKey, Null)
        configCliCommand == Default(config.cliCommand, Str(W_gemini))
        configToolType == Default(config.toolType, Str(W_gemini))
        finalCliCommand == GeminiFinalCliCommand(configCliCommand, cliCommand)
        finalToolType == GeminiFinalToolType(configToolType, toolType)
    IN  IF Truthy(useMock) THEN newMockGeminiService
        ELSE IF ~IsString(serviceType) THEN Thrown(TypeErr("toLowerCase"))
        ELSE LET kind == toLowerCase(serviceType.s) IN
            CASE kind = W_mock -> newMockGeminiService
              [] kind = W_api ->
                    IF ~Truthy(apiKey)
                    THEN Thrown(Err("apiKey", "is required for API-based service",
                                    <<>>, <<>>))
                    ELSE newGeminiApiService(apiKey, config.modelName)
              [] kind = W_cli -> GeminiCliCase(finalCliCommand, finalToolType)
              [] OTHER ->
                    Thrown(Err("serviceType", "Invalid serviceType. Must be one of",
                               serviceType.s, GeminiValidList))

\* createGeminiService(useMock = true, cliCommand = 'gemini', toolType = 'gemini')
createGeminiServiceLegacy(useMockArg, cliCommandArg, toolTypeArg) ==
    LET useMock == Default(useMockArg, Bool(TRUE))
        cliCommand == Default(cliCommandArg, Str(W_gemini))
        toolType == Default(toolTypeArg, Str(W_gemini))
    IN  IF Truthy(useMock) THEN newMockGeminiService
        ELSE GeminiCliCase(cliCommand, toolType)

-----------------------------------------------------------------------------
(* The converter's main and processNote (in-place, single-URL version)     *)

\* process.env and what the notes directory holds
Env(useMock, cliCommand, cliToolType, token, dryRun, dirExists, notes) ==
    [USE_MOCK_GEMINI |-> useMock, CLI_COMMAND |-> cliCommand,
     CLI_TOOL_TYPE |-> cliToolType, TWITTER_BEARER_TOKEN |-> token,
     DRY_RUN |-> dryRun, dirExists |-> dirExists, notes |-> notes]

\* const config = { cliToolType, cliCommand, useMockGemini, ... }
MainConfig(env) ==
    [cliToolType |-> Or(env.CLI_TOOL_TYPE, Str(W_gemini)),
     cliCommand |-> Or(env.CLI_COMMAND, Str(W_gemini)),
     useMockGemini |-> env.USE_MOCK_GEMINI,
     twitterBearerToken |-> env.TWITTER_BEARER_TOKEN,
     dryRun |-> env.DRY_RUN]

\* createTwitterService(bearerToken): null without a token
createTwitterService(bearerToken) ==
    IF ~Truthy(bearerToken) THEN NoService ELSE [class |-> "TwitterService"]

\* a note, by what processNote looks at: the number of URLs in it, whether it
\* holds the processed-content markers, and the kind of its URL
Note(urls, marked, kind) == [urls |-> urls, marked |-> marked, kind |-> kind]

NoNote == [urls |-> 0, marked |-> FALSE, kind |-> "none"]

NoteKinds ==
    {Note(0, FALSE, "none"), Note(2, FALSE, "web"), Note(1, TRUE, "web"),
     Note(1, FALSE, "web"), Note(1, FALSE, "ignored"), Note(1, FALSE, "image"),
     Note(1, FALSE, "twitter")}

RECURSIVE SeqsUpTo(_, _)
SeqsUpTo(S, n) ==
    IF n = 0 THEN {<<>>}
    ELSE LET shorter == SeqsUpTo(S, n - 1) IN
         shorter \cup { Append(q, x) : q \in shorter, x \in S }

MainEnvs ==
    { Env(um, cc, tt, tk, dr, de, ns) :
        um \in BOOLEAN,
        cc \in {Undefined, Str(<<"kiro-cli">>)},
        tt \in {Undefined, Str(toUpperCase(W_kiro)), Str(W_bogus)},
        tk \in {Undefined, Str(W_key)},
        dr \in BOOLEAN,
        de \in BOOLEAN,
        ns \in SeqsUpTo(NoteKinds, MaxNotes) }

MainIdle ==
    /\ mpc = "idle"
    /\ menv = Env(FALSE, Undefined, Undefined, Undefined, FALSE, FALSE, <<>>)
    /\ mService = NoService
    /\ mTwitter = NoService
    /\ files = <<>>
    /\ cur = NoNote
    /\ listed = FALSE
    /\ reads = 0
    /\ writes = 0
    /\ converts = 0
    /\ exitCode = -1
    /\ threw = NoError

Exit(code) ==
    /\ mpc' = "exit"
    /\ exitCode' = code

\* if (!config.useMockGemini && !config.cliCommand) process.exit(1)
MainValidate ==
    /\ mpc = "validate"
    /\ IF ~MainConfig(menv).useMockGemini /\ ~Truthy(MainConfig(menv).cliCommand)
       THEN Exit(1)
       ELSE mpc' = "create" /\ UNCHANGED exitCode
    /\ UNCHANGED <<menv, mService, mTwitter, files, cur, listed, reads, writes,
                   converts, threw>>

\* the construction wrapped in a try/catch that logs and carries on
MainCreateService_Swallowed ==
    /\ mpc = "create"
    /\ LET config == MainConfig(menv)
           out == createGeminiService(Bool(config.useMockGemini), config.cliCommand,
                                      config.cliToolType)
       IN  /\ threw' = out.error
           /\ mService' = out.service
           /\ mTwitter' = createTwitterService(config.twitterBearerToken)
           /\ mpc' = "access"
    /\ UNCHANGED <<menv, files, cur, listed, reads, writes, converts, exitCode>>

\* createGeminiService(...) and createTwitterService(...); an error thrown
\* here rejects main's promise, and main().catch ends the process with 1
MainCreateService ==
    /\ mpc = "create"
    /\ LET config == MainConfig(menv)
           out == createGeminiService(Bool(config.useMockGemini), config.cliCommand,
                                      config.cliToolType)
       IN  IF out.error # NoError
           THEN /\ threw' = out.error
                /\ Exit(1)
                /\ UNCHANGED <<mService, mTwitter>>
           ELSE /\ mService' = out.service
                /\ mTwitter' = createTwitterService(config.twitterBearerToken)
                /\ mpc' = "access"
                /\ UNCHANGED <<threw, exitCode>>
    /\ UNCHANGED <<menv, files, cur, listed, reads, writes, converts>>

\* await fs.access(config.notesPath), process.exit(1) when it fails
MainAccess ==
    /\ mpc = "access"
    /\ IF menv.dirExists
       THEN mpc' = "readdir" /\ UNCHANGED exitCode
       ELSE Exit(1)
    /\ UNCHANGED <<menv, mService, mTwitter, files, cur, listed, reads, writes,
                   converts, threw>>

\* await fs.readdir(config.notesPath); main returns when there is no note
MainReaddir ==
    /\ mpc = "readdir"
    /\ listed' = TRUE
    /\ files' = menv.notes
    /\ IF menv.notes = <<>>
       THEN Exit(0)
       ELSE mpc' = "loop" /\ UNCHANGED exitCode
    /\ UNCHANGED <<menv, mService, mTwitter, cur, reads, writes, converts, threw>>

\* processNote up to the fetch: the note is read, and skipped when it has no
\* URL, several URLs, the processed-content markers, an ignored or image URL,
\* or a Twitter URL while there is no Twitter service
ProcessNoteRead ==
    /\ mpc = "loop"
    /\ files # <<>>
    /\ cur' = Head(files)
    /\ files' = Tail(files)
    /\ reads' = reads + 1
    /\ LET n == Head(files) IN
       mpc' = IF n.urls # 1 \/ n.marked \/ n.kind \in {"ignored", "image"}
                 \/ (n.kind = "twitter" /\ mTwitter = NoService)
              THEN "loop"
              ELSE IF n.kind = "twitter" THEN "twitter" ELSE "fetch"
    /\ UNCHANGED <<menv, mService, mTwitter, listed, writes, converts, exitCode, threw>>

\* markdown = await twitterService.urlToMarkdown(url); a failure is caught
ProcessNoteTwitter ==
    /\ mpc = "twitter"
    /\ \E ok \in BOOLEAN : mpc' = IF ok THEN "save" ELSE "loop"
    /\ UNCHANGED <<menv, mService, mTwitter, files, cur, listed, reads, writes,
                   converts, exitCode, threw>>

\* const html = await fetchUrlContent(url); a failure is caught
ProcessNoteFetch ==
    /\ mpc = "fetch"
    /\ \E ok \in BOOLEAN : mpc' = IF ok THEN "convert" ELSE "loop"
    /\ UNCHANGED <<menv, mService, mTwitter, files, cur, listed, reads, writes,
                   converts, exitCode, threw>>

\* markdown = await geminiService.convertHtmlToMarkdown(html, url)
ProcessNoteConvert ==
    /\ mpc = "convert"
    /\ converts' = converts + 1
    /\ \E ok \in BOOLEAN : mpc' = IF ok THEN "save" ELSE "loop"
    /\ UNCHANGED <<menv, mService, mTwitter, files, cur, listed, reads, writes,
                   exitCode, threw>>

\* the file is rewritten unless this is a dry run
ProcessNoteSave ==
    /\ mpc = "save"
    /\ writes' = IF MainConfig(menv).dryRun THEN writes ELSE writes + 1
    /\ mpc' = "loop"
    /\ UNCHANGED <<menv, mService, mTwitter, files, cur, listed, reads, converts,
                   exitCode, threw>>

\* the loop over the notes is over: main resolves
MainDone ==
    /\ mpc = "loop"
    /\ files = <<>>
    /\ Exit(0)
    /\ UNCHANGED <<menv, mService, mTwitter, files, cur, listed, reads, writes,
                   converts, threw>>

-----------------------------------------------------------------------------
(* The local fallback backend: MockLLMService.convertHtmlToMarkdown         *)
(*                                                                         *)
(* A markup string is given by the document cheerio.load parses it into:   *)
(* the text of its title element and its element nodes in document order,  *)
(* each with its tag, its parent (0 is the body), its class or id and its   *)
(* own text. Text is a sequence of atoms; " " is white space.               *)

Whitespace == {" "}

Node(tag, parent, attr, text) ==
    [tag |-> tag, parent |-> parent, attr |-> attr, text |-> text]

Doc(title, nodes) == [t |-> "string", title |-> title, nodes |-> nodes]

RECURSIVE AncestorsOrSelf(_, _)
AncestorsOrSelf(nodes, i) ==
    IF i = 0 THEN {0} ELSE {i} \cup AncestorsOrSelf(nodes, nodes[i].parent)

\* the element nodes below r (every node when r is the body)
Descendants(nodes, r) ==
    { i \in DOMAIN nodes : i # r /\ r \in AncestorsOrSelf(nodes, i) }

\* $('script, style, nav, footer, aside').remove(): what is left
RemovedTags == {"script", "style", "nav", "footer", "aside"}

Live(nodes) ==
    { i \in DOMAIN nodes :
        \A a \in AncestorsOrSelf(nodes, i) \ {0} : nodes[a].tag \notin RemovedTags }

RECURSIVE TextFrom(_, _, _)
TextFrom(nodes, S, i) ==
    IF i > Len(nodes) THEN <<>>
    ELSE (IF i \in S THEN nodes[i].text ELSE <<>>) \o TextFrom(nodes, S, i + 1)

\* $(elem).text(): the text of the element and of what is left below it
TextOf(nodes, r) ==
    TextFrom(nodes, ({r} \cup Descendants(nodes, r)) \cap Live(nodes), 1)

RECURSIVE trimStart(_)
trimStart(s) ==
    IF s # <<>> /\ Head(s) \in Whitespace THEN trimStart(Tail(s)) ELSE s

RECURSIVE trimEnd(_)
trimEnd(s) ==
    IF s # <<>> /\ s[Len(s)] \in Whitespace
    THEN trimEnd(SubSeq(s, 1, Len(s) - 1))
    ELSE s

\* String.prototype.trim
trim(s) == trimEnd(trimStart(s))

\* the first, in document order, of a set of nodes; 0 when there is none
First(S) == IF S = {} THEN 0 ELSE CHOOSE i \in S : \A j \in S : i <= j

\* $('article, main, .content, #content, .post-content').first()
MainContent(nodes) ==
    First({ i \in Live(nodes) :
              \/ nodes[i].tag \in {"article", "main"}
              \/ nodes[i].attr \in {".content", "#content", ".post-content"} })

\* mainContent.length > 0 ? mainContent : $('body'); the body is node 0
ContentArea(nodes) == MainContent(nodes)

\* $('h1').first().text() || $('title').first().text() || 'Untitled Article'
TitleOf(doc) ==
    LET h1 == First({ i \in Live(doc.nodes) : doc.nodes[i].tag = "h1" })
        h1Text == IF h1 = 0 THEN <<>> ELSE TextOf(doc.nodes, h1)
    IN  trim(IF h1Text # <<>> THEN h1Text
             ELSE IF doc.title # <<>> THEN doc.title
             ELSE <<"Untitled Article">>)

BlockTags == {"h1", "h2", "h3", "h4", "h5", "h6", "p", "ul", "ol", "blockquote"}

HeadingMarker(tag) ==
    CASE tag = "h1" -> <<"#">>
      [] tag = "h2" -> <<"#", "#">>
      [] tag = "h3" -> <<"#", "#", "#">>
      [] tag = "h4" -> <<"#", "#", "#", "#">>
      [] tag = "h5" -> <<"#", "#", "#", "#", "#">>
      [] tag = "h6" -> <<"#", "#", "#", "#", "#", "#">>

\* $(elem).find('li').each(...): one bullet per list item below the list
RECURSIVE ListItems(_, _, _)
ListItems(nodes, S, i) ==
    IF i > Len(nodes) THEN <<>>
    ELSE (IF i \in S
          THEN <<"-", " ">> \o trim(TextOf(nodes, i)) \o <<"\n">>
          ELSE <<>>) \o ListItems(nodes, S, i + 1)

\* the body of the .each callback for one block element
EmitBlock(nodes, i) ==
    LET tag == nodes[i].tag
        text == trim(TextOf(nodes, i))
    IN  IF text = <<>> THEN <<>>
        ELSE CASE tag \in {"h1", "h2", "h3", "h4", "h5", "h6"} ->
                    HeadingMarker(tag) \o <<" ">> \o text \o <<"\n", "\n">>
               [] tag = "p" -> text \o <<"\n", "\n">>
               [] tag = "blockquote" -> <<">", " ">> \o text \o <<"\n", "\n">>
               [] tag \in {"ul", "ol"} ->
                    ListItems(nodes,
                              { j \in Descendants(nodes, i) \cap Live(nodes) :
                                  nodes[j].tag = "li" }, 1) \o <<"\n">>

\* contentArea.find('h1, h2, h3, h4, h5, h6, p, ul, ol, blockquote').each(...)
RECURSIVE EmitBlocks(_, _, _)
EmitBlocks(nodes, S, i) ==
    IF i > Len(nodes) THEN <<>>
    ELSE (IF i \in S THEN EmitBlock(nodes, i) ELSE <<>>) \o EmitBlocks(nodes, S, i + 1)

BodyOf(doc) ==
    EmitBlocks(doc.nodes,
               { i \in Descendants(doc.nodes, ContentArea(doc.nodes)) \cap Live(doc.nodes) :
                   doc.nodes[i].tag \in BlockTags }, 1)

NoOutput == <<"<none>">>

\* the whole call: the promise resolves with the text, or rejects; markup
\* that is no string has no length to read and cannot be loaded
convertHtmlToMarkdown(markup) ==
    IF ~IsString(markup)
    THEN [status |-> "rejected", text |-> NoOutput]
    ELSE [status |-> "resolved",
          text |-> <<"#", " ">> \o TitleOf(markup) \o <<"\n", "\n">> \o BodyOf(markup)]

\* new MockLLMService(): the class declares no constructor and no field
MockLLMServiceObject == [class |-> "MockLLMService"]

\* a method that put the source identifier into the text
MockCall_WithSource(self, markup, url) ==
    LET out == convertHtmlToMarkdown(markup) IN
    [self |-> self, status |-> out.status,
     text |-> IF out.status = "resolved" THEN out.text \o <<url>> ELSE out.text]

\* instance.convertHtmlToMarkdown(html, url): what becomes of the instance
\* and what the promise settles with. The method reads neither this nor url
\* and the module keeps no variable; Date.now() only feeds the log lines.
MockCall(self, markup, url) ==
    LET out == convertHtmlToMarkdown(markup) IN
    [self |-> self, status |-> out.status, text |-> out.text]

(* Inputs *)

NodeTexts == {<<>>, <<" ">>, <<"x">>, <<" ", "y", " ">>}

TitleTexts == {<<>>, <<" ">>, <<"t">>}

NodeShapes ==
    { <<tag, "">> : tag \in {"h1", "h2", "p", "ul", "li", "blockquote", "nav", "article"} }
    \cup {<<"div", ".content">>}

\* in document order a node's parent is the node before it or one of that
\* node's ancestors
WellFormed(nodes) ==
    \A i \in DOMAIN nodes :
        /\ nodes[i].parent \in 0 .. (i - 1)
        /\ i > 1 => nodes[i].parent \in AncestorsOrSelf(nodes, i - 1)

RECURSIVE NodeSeqs(_)
NodeSeqs(n) ==
    IF n = 0 THEN {<<>>}
    ELSE LET shorter == NodeSeqs(n - 1) IN
         shorter \cup
         { Append(q, Node(sh[1], par, sh[2], tx)) :
             q \in { r \in shorter : Len(r) = n - 1 },
             sh \in NodeShapes, par \in 0 .. (n - 1), tx \in NodeTexts }

\* the documents of up to n nodes
Docs(n) ==
    { Doc(ti, ns) : ti \in TitleTexts,
                    ns \in { q \in NodeSeqs(n) : WellFormed(q) } }

\* the article-like containers of the selector, as tag and class or id
Containers ==
    {<<"article", "">>, <<"main", "">>, <<"div", ".content">>,
     <<"div", "#content">>, <<"div", ".post-content">>}

\* documents with two containers side by side, a paragraph in each
ContainerDocs ==
    { Doc(<<>>, <<Node(a[1], 0, a[2], <<>>), Node("p", 1, "", <<"x">>),
                  Node(b[1], 0, b[2], <<>>), Node("p", 3, "", <<"y">>)>>) :
        a \in Containers, b \in Containers }

Markups(n) == {Undefined, Null} \cup Docs(n) \cup ContainerDocs

\* the instances calls are repeated on, the source identifiers and the
\* markups handed to them
InstanceIds == {"first", "second"}

Urls == {"https://a.example/post", "https://b.example/post"}

RepeatMarkups ==
    { Undefined,
      Doc(<<>>, <<>>),
      Doc(<<"t">>, <<Node("p", 0, "", <<"x">>)>>),
      Doc(<<>>, <<Node("h1", 0, "", <<"x">>), Node("p", 0, "", <<" ", "y", " ">>)>>) }

MockIdle ==
    /\ html = Undefined
    /\ cpc = "idle"
    /\ markdown = NoOutput
    /\ instances = <<>>
    /\ calls = <<>>

-----------------------------------------------------------------------------
(* Inputs of the factory calls *)

Credentials == {Undefined, Null, Str(<<>>), Str(W_key)}

UseMockValues == {Undefined, Bool(FALSE), Bool(TRUE), Str(<<"f","a","l","s","e">>)}

CasedStrings(words) == { Str(c) : c \in UNION { Casings(w) : w \in words } }

LLMServiceTypes ==
    {Undefined, Null, Str(<<>>)} \cup
    CasedStrings({W_api, W_mock, W_ollama, W_openrouter, W_cli, W_bogus})

LLMConfigs ==
    { LLMConfig(um, st, ak, mn, mn, ok) :
        um \in UseMockValues, st \in LLMServiceTypes, ak \in Credentials,
        mn \in {Undefined, Str(<<"custom-model">>)}, ok \in Credentials }

LLMArgs == {Undefined, Bool(TRUE), Bool(FALSE)} \cup LLMConfigs

LLMCalls == { [fn |-> "createLLMService", args |-> <<a>>] : a \in LLMArgs }

CliCommands == {Undefined, Str(<<>>), Str(<<"/usr/local/bin/kiro-cli">>)}

ToolTypes ==
    {Undefined, Str(<<>>)} \cup CasedStrings({W_gemini, W_kiro, W_claude, W_bogus})

GeminiServiceTypes ==
    {Undefined, Null} \cup CasedStrings({W_api, W_cli, W_mock, W_ollama, W_openrouter})

\* configurations that exercise the switch on the service type
GeminiDispatchConfigs ==
    { GeminiConfig(um, st, ak, Undefined, tt) :
        um \in {Undefined, Bool(TRUE)}, st \in GeminiServiceTypes,
        ak \in {Undefined, Str(W_key)}, tt \in {Undefined, Str(W_kiro)} }

\* configurations that exercise the checks of the external-tool case
GeminiCliConfigs ==
    { GeminiConfig(um, st, Undefined, cc, tt) :
        um \in {Undefined, Bool(FALSE)}, st \in {Str(W_cli), Str(toUpperCase(W_cli))},
        cc \in CliCommands, tt \in ToolTypes }

GeminiCalls ==
    { [fn |-> "createGeminiService", args |-> <<c, Undefined, Undefined>>] :
        c \in {Undefined} \cup GeminiDispatchConfigs }
    \cup
    { [fn |-> "createGeminiService", args |-> <<c, cc, tt>>] :
        c \in GeminiCliConfigs, cc \in {Undefined, Str(<<>>)},
        tt \in {Undefined, Str(<<>>), Str(W_claude)} }
    \cup
    { [fn |-> "createGeminiService", args |-> <<Bool(b), cc, tt>>] :
        b \in BOOLEAN, cc \in CliCommands, tt \in ToolTypes }

GeminiLegacyCalls ==
    { [fn |-> "createGeminiServiceLegacy", args |-> <<um, cc, tt>>] :
        um \in {Undefined, Bool(TRUE), Bool(FALSE)}, cc \in CliCommands, tt \in ToolTypes }

-----------------------------------------------------------------------------
(* The prompt builder: LLMService.buildConversionPrompt (llmService.js)     *)
(*                                                                         *)
(* The markup can be longer than the cap of 50,000 characters, so a text   *)
(* is kept run-length encoded: a sequence of runs <<character, count>> in   *)
(* which neighbouring runs differ in their character. Two texts are the    *)
(* same string exactly when their encodings are equal.                     *)

\* html.length > 50000
PromptCap == 50000

Run(c, n) == <<c, n>>

\* a + b
Cat(a, b) ==
    IF a = <<>> THEN b
    ELSE IF b = <<>> THEN a
    ELSE IF a[Len(a)][1] = b[1][1]
         THEN SubSeq(a, 1, Len(a) - 1)
                \o <<Run(b[1][1], a[Len(a)][2] + b[1][2])>> \o Tail(b)
         ELSE a \o b

\* the text of a sequence of characters: a run begins where the character
\* differs from the one before it
Lit(chars) ==
    LET starts == { i \in DOMAIN chars : i = 1 \/ chars[i] # chars[i - 1] }
        start(k) == CHOOSE i \in starts : Cardinality({ j \in starts : j < i }) = k - 1
        end(k) == IF k = Cardinality(starts) THEN Len(chars) ELSE start(k + 1) - 1
    IN  [k \in 1 .. Cardinality(starts) |->
            Run(chars[start(k)], end(k) - start(k) + 1)]

\* the number of characters in the runs lo .. hi of t
RECURSIVE RunsLength(_, _, _)
RunsLength(t, lo, hi) ==
    IF lo > hi THEN 0
    ELSE IF lo = hi THEN t[lo][2]
    ELSE LET mid == (lo + hi) \div 2
         IN  RunsLength(t, lo, mid) + RunsLength(t, mid + 1, hi)

\* s.length
TextLength(t) == RunsLength(t, 1, Len(t))

\* s.substring(0, k)
substring0(t, k) ==
    IF k <= 0 THEN <<>>
    ELSE IF k >= TextLength(t) THEN t
    ELSE LET i == CHOOSE j \in DOMAIN t :
                     RunsLength(t, 1, j - 1) < k /\ k <= RunsLength(t, 1, j)
         IN  SubSeq(t, 1, i - 1) \o <<Run(t[i][1], k - RunsLength(t, 1, i - 1))>>

\* t.includes(p): p's first run ends a run of t, its last run begins one,
\* the runs between are runs of t
includesText(t, p) ==
    \/ p = <<>>
    \/ /\ Len(p) = 1
       /\ \E i \in DOMAIN t : t[i][1] = p[1][1] /\ t[i][2] >= p[1][2]
    \/ /\ Len(p) >= 2
       /\ \E i \in 1 .. (Len(t) - Len(p) + 1) :
            /\ t[i][1] = p[1][1] /\ t[i][2] >= p[1][2]
            /\ \A j \in 2 .. (Len(p) - 1) : t[i + j - 1] = p[j]
            /\ t[i + Len(p) - 1][1] = p[Len(p)][1]
            /\ t[i + Len(p) - 1][2] >= p[Len(p)][2]

Digits == <<"0", "1", "2", "3", "4", "5", "6", "7", "8", "9">>

\* `${n}` for a length
RECURSIVE Decimal(_)
Decimal(n) ==
    IF n < 10 THEN Lit(<<Digits[n + 1]>>)
    ELSE Cat(Decimal(n \div 10), Lit(<<Digits[(n % 10) + 1]>>))

PromptLine1 ==
  Lit(
    <<"E", "x", "t", "r", "a", "c", "t", " ", "t", "h", "e", " ", "m", "a",
      "i", "n", " ", "a", "r", "t", "i", "c", "l", "e", " ", "c", "o", "n",
      "t", "e", "n", "t", " ", "f", "r", "o", "m", " ", "t", "h", "i", "s",
      " ", "H", "T", "M", "L", " ">>)

PromptLine1b ==
  Lit(
    <<"a", "n", "d", " ", "c", "o", "n", "v", "e", "r", "t", " ", "t", "o",
      " ", "c", "l", "e", "a", "n", " ", "M", "a", "r", "k", "d", "o", "w",
      "n", ".", "\n", "\n">>)

PromptLine3 ==
  Lit(
    <<"F", "o", "c", "u", "s", " ", "o", "n", ":", " ", "t", "i", "t", "l",
      "e", ",", " ", "h", "e", "a", "d", "i", "n", "g", "s", ",", " ", "p",
      "a", "r", "a", "g", "r", "a", "p", "h", "s", ",", " ", "l", "i", "s",
      "t", "s", ",", " ">>)

PromptLine3b ==
  Lit(
    <<"q", "u", "o", "t", "e", "s", ",", " ", "c", "o", "d", "e", " ", "b",
      "l", "o", "c", "k", "s", ".", "\n">>)

PromptLine4 ==
  Lit(
    <<"I", "g", "n", "o", "r", "e", ":", " ", "n", "a", "v", "i", "g", "a",
      "t", "i", "o", "n", ",", " ", "a", "d", "s", ",", " ", "s", "i", "d",
      "e", "b", "a", "r", "s", ",", " ", "c", "o", "m", "m", "e", "n", "t",
      "s", ",", " ", "f", "o", "o", "t", "e", "r", "s", ".", "\n", "\n">>)

PromptLine6 ==
  Lit(
    <<"H", "T", "M", "L", " ", "(">>)

\* the template up to the length it reports
PromptIntro ==
    Cat(Cat(Cat(Cat(Cat(PromptLine1, PromptLine1b), PromptLine3), PromptLine3b),
            PromptLine4),
        PromptLine6)

PromptChars ==
  Lit(
    <<" ", "c", "h", "a", "r", "s", ")", ":", "\n">>)

PromptOutro ==
  Lit(
    <<"\n", "\n", "R", "e", "t", "u", "r", "n", " ", "o", "n", "l", "y", " ",
      "c", "l", "e", "a", "n", " ", "M", "a", "r", "k", "d", "o", "w", "n",
      ":">>)

\* '\n\n[HTML truncated - too large]'
TruncationMarker ==
  Lit(
    <<"\n", "\n", "[", "H", "T", "M", "L", " ", "t", "r", "u", "n", "c", "a",
      "t", "e", "d", " ", "-", " ", "t", "o", "o", " ", "l", "a", "r", "g",
      "e", "]">>)

\* the marker appended also to a markup of exactly the cap's length
truncatedHtml_AtCap(markup) ==
    IF TextLength(markup) >= PromptCap
    THEN Cat(substring0(markup, PromptCap), TruncationMarker)
    ELSE markup

\* html.length > 50000 ? html.substring(0, 50000) + marker : html
truncatedHtml(markup) ==
    IF TextLength(markup) > PromptCap
    THEN Cat(substring0(markup, PromptCap), TruncationMarker)
    ELSE markup

buildConversionPrompt(markup) ==
    Cat(Cat(Cat(Cat(PromptIntro, Decimal(TextLength(markup))), PromptChars),
            truncatedHtml(markup)),
        PromptOutro)

(* Inputs: markups made of at most MaxPieces pieces, each a run of one      *)
(* character of a length at or around the cap, or the marker's own text    *)

PieceChars == {"x", "\n"}

PieceLengths == {1, PromptCap - 1, PromptCap, PromptCap + 1}

Pieces == { <<Run(c, n)>> : c \in PieceChars, n \in PieceLengths } \cup {TruncationMarker}

RECURSIVE PromptMarkups(_)
PromptMarkups(n) ==
    IF n = 0 THEN {<<>>}
    ELSE LET shorter == PromptMarkups(n - 1) IN
         shorter \cup { Cat(m, p) : m \in shorter, p \in Pieces }

PromptIdle ==
    /\ pHtml = <<>>
    /\ ppc = "idle"
    /\ prompt = <<>>

-----------------------------------------------------------------------------
(* The external tool backend: GeminiService.convertHtmlToMarkdown          *)
(* (geminiService.js), in the version that extends LLMService ("llm") and  *)
(* in the older version with the tools' flags ("legacy")                   *)

\* timeout: 120000
ToolTimeout == 120000

\* maxBuffer: 10 * 1024 * 1024
MaxBuffer == 10 * 1024 * 1024

Num(n) == [t |-> "number", n |-> n]

WhiteChars == {" ", "\n", "\t"}

\* String.prototype.trim of a text
trimText(t) ==
    LET solid == { i \in DOMAIN t : t[i][1] \notin WhiteChars } IN
    IF solid = {} THEN <<>>
    ELSE SubSeq(t, CHOOSE i \in solid : \A j \in solid : i <= j,
                   CHOOSE i \in solid : \A j \in solid : j <= i)

\* the constructor: this.cliCommand, this.toolType
GeminiServiceInstance(version, cliCommand, toolType) ==
    [version |-> version, cliCommand |-> cliCommand, toolType |-> toLowerCase(toolType)]

\* what getToolCommand puts after the program
ToolFlags(self) ==
    IF self.version = "llm" THEN <<>>
    ELSE IF self.toolType = W_kiro
         THEN Lit(<<" ", "c", "h", "a", "t", " ", "-", "-", "n", "o", "-", "i", "n",
                    "t", "e", "r", "a", "c", "t", "i", "v", "e", " ", "-", "-", "t",
                    "r", "u", "s", "t", "-", "a", "l", "l", "-", "t", "o", "o", "l",
                    "s">>)
         ELSE Lit(<<" ", "-", "p", " ", "-">>)

getToolCommand(self) == Cat(Lit(self.cliCommand), ToolFlags(self))

\* the options handed to execAsync
ExecOptions(promptText) ==
    [input |-> promptText, maxBuffer |-> MaxBuffer, timeout |-> ToolTimeout,
     shell |-> TRUE]

NoInput == [written |-> FALSE, data |-> <<>>]

\* what child_process.exec writes to the child's standard input: exec has
\* no input option (execSync and spawnSync have), the pipe is left unwritten
ExecStdin(options) == NoInput

\* a child process: what it writes, and the exit code and running time (ms)
\* it has when it is left to run to its end
Child(stdout, stderr, code, runtime) ==
    [stdout |-> stdout, stderr |-> stderr, code |-> code, runtime |-> runtime]

\* how exec can end for a child: it exits by itself, it is killed when the
\* timeout fires, or it is killed when a stream outgrows maxBuffer
ExecEndings(child, options) ==
    LET over == \/ TextLength(child.stdout) > options.maxBuffer
                \/ TextLength(child.stderr) > options.maxBuffer
        late == child.runtime > options.timeout
    IN  (IF over THEN {"overflow"} ELSE {})
          \cup (IF late THEN {"timeout"} ELSE {})
          \cup (IF ~over /\ ~late THEN {"exit"} ELSE {})

ExecError(code, signal, killed, message) ==
    [name |-> "Error", code |-> code, signal |-> signal, killed |-> killed,
     message |-> message]

NoExecError == ExecError(Undefined, Undefined, Undefined, "")

\* the promise of execAsync: {stdout, stderr}, or the error it rejects with
ExecResult(child, ending, options) ==
    LET out == substring0(child.stdout, options.maxBuffer)
        err == substring0(child.stderr, options.maxBuffer)
    IN  CASE ending = "overflow" ->
               [ok |-> FALSE, stdout |-> out, stderr |-> err,
                error |-> ExecError(Str(<<"ERR_CHILD_PROCESS_STDIO_MAXBUFFER">>),
                                    Undefined, Undefined, "maxBuffer length exceeded")]
          [] ending = "timeout" ->
               [ok |-> FALSE, stdout |-> out, stderr |-> err,
                error |-> ExecError(Null, Str(<<"SIGTERM">>), Bool(TRUE), "Command failed")]
          [] ending = "exit" /\ child.code # 0 ->
               [ok |-> FALSE, stdout |-> out, stderr |-> err,
                error |-> ExecError(Num(child.code), Null, Bool(FALSE), "Command failed")]
          [] ending = "exit" /\ child.code = 0 ->
               [ok |-> TRUE, stdout |-> out, stderr |-> err, error |-> NoExecError]

\* the catch block throwing an error of its own in place of exec's
ToolOutcome_Wrapped(res) ==
    IF ~res.ok
    THEN [status |-> "rejected", text |-> <<>>,
          error |-> ExecError(Undefined, Undefined, Undefined, "CLI call failed"),
          warned |-> FALSE]
    ELSE [status |-> IF trimText(res.stdout) = <<>> THEN "rejected" ELSE "resolved",
          text |-> trimText(res.stdout),
          error |-> IF trimText(res.stdout) = <<>>
                    THEN ExecError(Undefined, Undefined, Undefined,
                                   "No content generated by CLI")
                    ELSE NoExecError,
          warned |-> res.stderr # <<>>]

\* a result without the check of the generated text
ToolOutcome_Unchecked(res) ==
    IF ~res.ok
    THEN [status |-> "rejected", text |-> <<>>, error |-> res.error, warned |-> FALSE]
    ELSE [status |-> "resolved", text |-> trimText(res.stdout), error |-> NoExecError,
          warned |-> res.stderr # <<>>]

\* the statements after execAsync: the warning for stderr, the trimmed
\* stdout, the error for no content; the catch block throws the error on
ToolOutcome(res) ==
    IF ~res.ok
    THEN [status |-> "rejected", text |-> <<>>, error |-> res.error, warned |-> FALSE]
    ELSE LET generatedText == trimText(res.stdout) IN
         IF generatedText = <<>>
         THEN [status |-> "rejected", text |-> <<>>,
               error |-> ExecError(Undefined, Undefined, Undefined,
                                   "No content generated by CLI"),
               warned |-> res.stderr # <<>>]
         ELSE [status |-> "resolved", text |-> generatedText, error |-> NoExecError,
               warned |-> res.stderr # <<>>]

\* the catch block's diagnosis of the error it throws on
ToolDiagnosis(e) ==
    IF e.code = Str(<<"ERR_CHILD_PROCESS_STDIO_MAXBUFFER">>) THEN "maxBuffer"
    ELSE IF e.signal = Str(<<"SIGTERM">>) \/ Truthy(e.killed) THEN "killed"
    ELSE "other"

(* Inputs *)

ToolVersions == {"llm", "legacy"}

ToolPrograms == {W_gemini, <<"k", "i", "r", "o", "-", "c", "l", "i">>}

ToolVariants == {W_gemini, W_kiro, W_claude, <<"K", "i", "r", "o">>}

ToolMarkups == {<<>>, Lit(<<"<", "p", ">", "x">>), <<Run("x", PromptCap + 1)>>}

ChildStdouts ==
    {<<>>, Lit(<<" ", "\n">>), Lit(<<" ", "#", " ", "T", "\n">>),
     <<Run("x", MaxBuffer)>>, <<Run("x", MaxBuffer + 1)>>}

ChildStderrs == {<<>>, Lit(<<"w">>), <<Run("e", MaxBuffer + 1)>>}

Children ==
    { Child(o, e, c, r) : o \in ChildStdouts, e \in ChildStderrs, c \in {0, 1},
                          r \in {1000, ToolTimeout, ToolTimeout + 1} }

NoEnding == [child |-> Child(<<>>, <<>>, 0, 0), ending |-> "none"]

ToolIdle ==
    /\ tSelf = GeminiServiceInstance("llm", <<>>, <<>>)
    /\ tHtml = <<>>
    /\ tpc = "idle"
    /\ tPrompt = <<>>
    /\ tCommand = <<>>
    /\ tStdin = NoInput
    /\ tEnd = NoEnding
    /\ tResult = <<>>
    /\ tError = NoExecError
    /\ tWarned = FALSE

-----------------------------------------------------------------------------
(* The hosted API backend (GeminiApiService) and the second hosted API     *)
(* backend (OpenRouterService): convertHtmlToMarkdown. Neither class is in *)
(* the sources at hand; both are modelled from their specification, the    *)
(* second also from its tests.                                             *)

\* the body of a successful response: without the list of candidates or
\* choices ("none"), with an empty list ("empty"), with a first entry that
\* has no message ("nomessage"), or with a first entry's text ("content")
Body(shape, content) == [shape |-> shape, content |-> content]

\* a provider's answer to one request
Answered(body) ==
    [ok |-> TRUE, status |-> 200, body |-> body, text |-> <<>>, hint |-> Undefined]

\* a non-2xx answer: status, raw body text, retry-delay hint
Failed(status, text, hint) ==
    [ok |-> FALSE, status |-> status, body |-> Body("none", Undefined), text |-> text,
     hint |-> hint]

\* no answer at all: the connection failed
Unreachable ==
    [ok |-> FALSE, status |-> 0, body |-> Body("none", Undefined),
     text |-> <<"Network failure">>, hint |-> Undefined]

\* candidates?.[0]?.content?.parts?.[0]?.text, choices?.[0]?.message?.content
GeneratedText(body) == IF body.shape = "content" THEN body.content ELSE Undefined

\* a part of an error message: fixed words, the status or the body text
Part(k, v) == [k |-> k, v |-> v]

NoApiError == [name |-> "none", status |-> 0, message |-> <<>>]

NoContentError == [name |-> "NoContentError", status |-> 0,
                   message |-> <<Part("words", "No content generated")>>]

\* the error for a failed request with the status left out of the message
ProviderErrorOf_BodyOnly(answer) ==
    [name |-> "ProviderError", status |-> answer.status,
     message |-> <<Part("words", "API error: "), Part("body", answer.text)>>]

\* the error for a failed request: 'API error (status): body'
ProviderErrorOf(answer) ==
    IF answer.status = 0
    THEN [name |-> "ProviderError", status |-> 0,
          message |-> <<Part("body", answer.text)>>]
    ELSE [name |-> "ProviderError", status |-> answer.status,
          message |-> <<Part("words", "API error ("), Part("status", answer.status),
                        Part("words", "): "), Part("body", answer.text)>>]

\* a successful response taken for a result whatever its text
ExtractOutcome_AnyText(body) ==
    LET content == GeneratedText(body) IN
    [status |-> "resolved",
     text |-> IF IsString(content) THEN trim(content.s) ELSE <<>>,
     error |-> NoApiError]

\* the text of a successful response, trimmed; no usable text is an error
ExtractOutcome(body) ==
    LET content == GeneratedText(body) IN
    IF ~Truthy(content) \/ ~IsString(content) \/ trim(content.s) = <<>>
    THEN [status |-> "rejected", text |-> <<>>, error |-> NoContentError]
    ELSE [status |-> "resolved", text |-> trim(content.s), error |-> NoApiError]

IsDigit(c) == \E d \in DOMAIN Digits : Digits[d] = c

DigitValue(c) == (CHOOSE d \in DOMAIN Digits : Digits[d] = c) - 1

\* the number of leading digits of s from position i on
RECURSIVE DigitsFrom(_, _)
DigitsFrom(s, i) ==
    IF i <= Len(s) /\ IsDigit(s[i]) THEN 1 + DigitsFrom(s, i + 1) ELSE 0

\* the value of the digits s[i .. j]
RECURSIVE DigitsValue(_, _, _)
DigitsValue(s, i, j) ==
    IF i > j THEN 0 ELSE DigitsValue(s, i, j - 1) * 10 + DigitValue(s[j])

NoDelay == -1

\* the retry-delay hint ('1s', '1.5s'): its leading number, taken as
\* seconds and rounded up; NoDelay when there is no leading number
RetryDelaySeconds(hint) ==
    IF ~IsString(hint) THEN NoDelay
    ELSE LET s == hint.s
             w == DigitsFrom(s, 1)
             f == IF w < Len(s) /\ s[w + 1] = "." THEN DigitsFrom(s, w + 2) ELSE 0
         IN  IF w = 0 THEN NoDelay
             ELSE DigitsValue(s, 1, w)
                    + (IF f > 0 /\ DigitsValue(s, w + 2, w + 1 + f) > 0 THEN 1 ELSE 0)

\* every failed request of the hosted API backend retried
ShouldRetry_AnyFailure(kind, answer) == kind = "hosted" /\ ~answer.ok

\* the one rate-limit-aware retry: hosted API backend only, status 429 with
\* a hint that can be parsed
ShouldRetry(kind, answer) ==
    /\ kind = "hosted"
    /\ ~answer.ok
    /\ answer.status = 429
    /\ RetryDelaySeconds(answer.hint) # NoDelay

(* Inputs *)

ApiKinds == {"hosted", "second"}

Bodies ==
    { Body(sh, Undefined) : sh \in {"none", "empty", "nomessage"} }
    \cup { Body("content", c) :
             c \in {Null, Str(<<>>), Str(<<" ">>), Str(<<" ", "m", "d", " ">>),
                    Str(<<"m", "d">>)} }

RetryHints ==
    {Undefined, Str(<<"1", "s">>), Str(<<"1", ".", "5", "s">>), Str(<<"0", ".", "2", "s">>),
     Str(<<"2", ".", "0", "s">>), Str(<<"s", "o", "o", "n">>)}

Answers ==
    { Answered(b) : b \in Bodies }
    \cup { Failed(st, <<"slow down">>, h) : st \in {401, 429, 500}, h \in RetryHints }
    \cup {Unreachable}

ApiIdle ==
    /\ aKind = "none"
    /\ apc = "idle"
    /\ aResponses = <<>>
    /\ aRequests = 0
    /\ aDelay = NoDelay
    /\ aSlept = 0
    /\ aResult = <<>>
    /\ aError = NoApiError

-----------------------------------------------------------------------------
(* Note text of the converters (utils.js)                                  *)
(*                                                                         *)
(* The content of a note is a sequence of atoms: the delimiters of the     *)
(* regular expressions (" ", "\n", "[", "]", "(", ")") one by one, and      *)
(* every other stretch of text as one atom. An atom of UrlStarts is the    *)
(* scheme and host of a URL; any atom that is no delimiter continues it.   *)

UrlStarts ==
    {"https://a.example", "https://b.example", "https://youtu.be", "https://x.com"}

UrlEnders == {" ", "\n", "[", "]", "(", ")"}

\* the first index from `from` on at which c holds atom a; 0 when none
IndexOfAtom(c, a, from) ==
    LET S == { i \in from .. Len(c) : c[i] = a }
    IN  IF S = {} THEN 0 ELSE CHOOSE i \in S : \A j \in S : i <= j

\* String.prototype.indexOf(pat, from - 1) + 1
IndexOfText(c, pat, from) ==
    LET S == { i \in from .. (Len(c) - Len(pat) + 1) :
                 SubSeq(c, i, i + Len(pat) - 1) = pat }
    IN  IF S = {} THEN 0 ELSE CHOOSE i \in S : \A j \in S : i <= j

\* String.prototype.includes
includesAtoms(c, pat) == IndexOfText(c, pat, 1) # 0

\* content.replace(new RegExp(escaped, 'g'), rep) for a literal pattern
RECURSIVE ReplaceAll(_, _, _)
ReplaceAll(c, pat, rep) ==
    LET i == IndexOfText(c, pat, 1)
    IN  IF pat = <<>> \/ i = 0 THEN c
        ELSE SubSeq(c, 1, i - 1) \o rep
             \o ReplaceAll(SubSeq(c, i + Len(pat), Len(c)), pat, rep)

\* /\[([^\]]+)\]\(([^)]+)\)/ tried at index i: the indices of "]" and of
\* the closing ")", or <<0, 0>> when there is no match at i
LinkAt(c, i) ==
    LET j == IndexOfAtom(c, "]", i + 1)
        k == IF j = 0 THEN 0 ELSE IndexOfAtom(c, ")", j + 2)
    IN  IF /\ i <= Len(c) /\ c[i] = "["
           /\ j >= i + 2
           /\ j + 1 <= Len(c) /\ c[j + 1] = "("
           /\ k >= j + 3
        THEN <<j, k>> ELSE <<0, 0>>

\* the first index from `from` on at which a markdown link starts; 0 when none
NextLink(c, from) ==
    LET S == { i \in from .. Len(c) : LinkAt(c, i) # <<0, 0>> }
    IN  IF S = {} THEN 0 ELSE CHOOSE i \in S : \A j \in S : i <= j

\* while ((match = markdownLinkRegex.exec(content)) !== null) urls.push(match[2])
RECURSIVE LinkTargets(_)
LinkTargets(c) ==
    LET i == NextLink(c, 1)
    IN  IF i = 0 THEN <<>>
        ELSE LET jk == LinkAt(c, i) IN
             <<SubSeq(c, jk[1] + 2, jk[2] - 1)>>
             \o LinkTargets(SubSeq(c, jk[2] + 1, Len(c)))

\* content.replace(markdownLinkRegex, '')
RECURSIVE WithoutLinks(_)
WithoutLinks(c) ==
    LET i == NextLink(c, 1)
    IN  IF i = 0 THEN c
        ELSE SubSeq(c, 1, i - 1)
             \o WithoutLinks(SubSeq(c, LinkAt(c, i)[2] + 1, Len(c)))

\* the end of the match of /https?:\/\/[^\s<>\[\]()]+/ that starts at i
UrlEnd(c, i) ==
    LET S == { j \in (i + 1) .. Len(c) : c[j] \in UrlEnders }
    IN  IF S = {} THEN Len(c) ELSE (CHOOSE j \in S : \A k \in S : j <= k) - 1

\* contentWithoutMarkdown.match(urlRegex) || []
RECURSIVE PlainUrls(_)
PlainUrls(c) ==
    LET S == { i \in DOMAIN c : c[i] \in UrlStarts }
    IN  IF S = {} THEN <<>>
        ELSE LET i == CHOOSE x \in S : \A y \in S : x <= y
                 e == UrlEnd(c, i)
             IN  <<SubSeq(c, i, e)>> \o PlainUrls(SubSeq(c, e + 1, Len(c)))

\* [...new Set(urls)]: the first occurrence of each is kept
Unique(q) ==
    LET keep == { i \in DOMAIN q : \A j \in 1 .. (i - 1) : q[j] # q[i] }
        Nth(n) == CHOOSE i \in keep : Cardinality({ j \in keep : j <= i }) = n
    IN  [n \in 1 .. Cardinality(keep) |-> q[Nth(n)]]

extractUrls(content) ==
    Unique(LinkTargets(content) \o PlainUrls(WithoutLinks(content)))

\* new URL(url).hostname, classified; a string without scheme and host, or
\* with white space in it, is no URL
getUrlType(url) ==
    IF url = <<>> \/ Head(url) \notin UrlStarts
       \/ \E i \in DOMAIN url : url[i] \in {" ", "\n"}
    THEN "invalid"
    ELSE CASE Head(url) = "https://x.com" -> "twitter"
           [] Head(url) = "https://youtu.be" -> "youtube"
           [] OTHER -> "web"

isTwitterUrl(url) == getUrlType(url) = "twitter"

shouldIgnoreUrl(url) == getUrlType(url) \in {"youtube", "instagram", "invalid"}

\* url.match(/\.(jpg|jpeg|png|gif|svg|webp|ico)$/i)
isImageUrl(url) == url # <<>> /\ url[Len(url)] = ".png"

\* c.replace(markdownLinkRegex, ...) for the links to url: each is replaced
\* by before, its link text if kept, and after
RECURSIVE ReplaceLinksTo(_, _, _, _, _)
ReplaceLinksTo(c, url, before, keep, after) ==
    LET S == { i \in DOMAIN c :
                 LET j == IndexOfAtom(c, "]", i + 1) IN
                 /\ c[i] = "[" /\ j >= i + 2
                 /\ j + Len(url) + 2 <= Len(c)
                 /\ SubSeq(c, j + 1, j + Len(url) + 2) = <<"(">> \o url \o <<")">> }
    IN  IF S = {} THEN c
        ELSE LET i == CHOOSE x \in S : \A y \in S : x <= y
                 j == IndexOfAtom(c, "]", i + 1)
             IN  SubSeq(c, 1, i - 1) \o before
                 \o (IF keep THEN SubSeq(c, i + 1, j - 1) ELSE <<>>) \o after
                 \o ReplaceLinksTo(SubSeq(c, j + Len(url) + 3, Len(c)), url,
                                   before, keep, after)

-----------------------------------------------------------------------------
(* The converters' loop over the notes: processNote of index.js (articles  *)
(* are saved to the output directory and processed links deleted), of the  *)
(* in-place converter for any number of URLs, and of the in-place          *)
(* converter for single-URL notes                                          *)

NoteVersions == {"articles", "inplace", "single"}

NoteConfig(dryRun, deleteLinks, twitter) ==
    [dryRun |-> dryRun, deleteLinks |-> deleteLinks, twitter |-> twitter]

\* a check that finds no note processed
hasProcessedContent_Never(content) == FALSE

\* content.includes('**Source:**') || content.includes('---\n\n# ')
hasProcessedContent(content) ==
    \/ includesAtoms(content, <<"**Source:**">>)
    \/ includesAtoms(content, <<"---", "\n", "\n", "#", " ">>)

\* the text a URL is replaced by: a rule, a heading, the article, the source
\* line (single-URL converter only) and a rule
ExpansionHead == <<"\n", "\n", "---", "\n", "\n", "#", " ">>

ExpansionTail(version, url, md) ==
    <<"\n", "\n">> \o md
    \o (IF version = "single" THEN <<"\n", "\n", "**Source:**", " ">> \o url ELSE <<>>)
    \o <<"\n", "\n", "---", "\n", "\n">>

\* markdown links to the URL are replaced first; if there is none, the
\* plain occurrences are
ExpandUrl(version, content, url, md) ==
    LET markdownReplaced ==
            ReplaceLinksTo(content, url, ExpansionHead, TRUE,
                           ExpansionTail(version, url, md))
    IN  IF markdownReplaced = content
        THEN ReplaceAll(content, url,
                        ExpansionHead \o <<"Article", " ", "Content">>
                        \o ExpansionTail(version, url, md))
        ELSE markdownReplaced

\* modifiedContent.replace(/\n{3,}/g, '\n\n')
CollapseBlankLines(c) ==
    LET keep == { i \in DOMAIN c :
                    ~(i > 2 /\ c[i] = "\n" /\ c[i - 1] = "\n" /\ c[i - 2] = "\n") }
        Nth(n) == CHOOSE i \in keep : Cardinality({ j \in keep : j <= i }) = n
    IN  [n \in 1 .. Cardinality(keep) |-> c[Nth(n)]]

\* for (const url of processedUrls): the links to it and its plain
\* occurrences are removed
RECURSIVE RemoveUrls(_, _)
RemoveUrls(c, processedUrls) ==
    IF processedUrls = <<>> THEN c
    ELSE RemoveUrls(ReplaceAll(ReplaceLinksTo(c, Head(processedUrls), <<>>, FALSE, <<>>),
                               Head(processedUrls), <<>>),
                    Tail(processedUrls))

\* a condition that forgets the dry run
DeletesLinks_InDryRun(config, processedUrls) ==
    config.deleteLinks /\ processedUrls # <<>>

\* config.deleteLinks && processedUrls.length > 0 && !config.dryRun
DeletesLinks(config, processedUrls) ==
    config.deleteLinks /\ processedUrls # <<>> /\ ~config.dryRun

\* sanitizeFilename, atom by atom
SanitizeAtom(a) ==
    CASE a = "/p" -> "p"
      [] a = "/1" -> "1"
      [] a = ".png" -> "-png"
      [] a = "https://a.example" -> "a-example"
      [] a = "https://b.example" -> "b-example"
      [] a = "https://youtu.be" -> "youtu-be"
      [] a = "https://x.com" -> "x-com"
      [] OTHER -> a

\* createFilenameFromUrl of utils.js: the last part of the path, or the host
createFilenameFromUrl(url) ==
    LET S == { i \in 2 .. Len(url) : url[i] \in {"/p", "/1"} }
        from == IF S = {} THEN 1 ELSE CHOOSE i \in S : \A j \in S : j <= i
    IN  [n \in 1 .. (Len(url) - from + 1) |-> SanitizeAtom(url[from + n - 1])]

\* `twitter-${twitterService.extractTweetId(url)}`
TwitterFilename(url) == <<"twitter-">> \o createFilenameFromUrl(url)

\* what one pass of the loop over the URLs does with a URL, given what the
\* services and the file system do: the URL is left alone, fails or is done
UrlOutcome(version, config, url, env) ==
    IF shouldIgnoreUrl(url) THEN "ignored"
    ELSE IF version = "single" /\ isImageUrl(url) THEN "image"
    ELSE IF isTwitterUrl(url) /\ ~config.twitter THEN "noToken"
    ELSE IF isTwitterUrl(url) /\ env.kind = "twitterFails" THEN "failed"
    ELSE IF ~isTwitterUrl(url) /\ env.kind \in {"fetchFails", "convertFails"} THEN "failed"
    ELSE IF version = "articles" /\ ~config.dryRun /\ env.kind = "saveFails" THEN "failed"
    ELSE "done"

\* a catch that gives the batch up
OnUrlFailure_Abort(version) == [pc |-> "done", exit |-> 1]

\* catch (error) of the try around one URL: the error is logged; the loop
\* goes on with the next URL, the single-URL converter returns to main's loop
OnUrlFailure(version) ==
    [pc |-> IF version = "single" THEN "note" ELSE "url", exit |-> -1]

NoLast ==
    [file |-> 0, before |-> <<>>, after |-> <<>>, urls |-> <<>>, processed |-> <<>>,
     written |-> FALSE]

NoTrace ==
    [reads |-> {}, found |-> {}, visited |-> {}, calls |-> {}, failed |-> {},
     saved |-> {}, last |-> NoLast]

(* Inputs *)

NotePieces ==
    << <<"w">>,
       <<"https://a.example">>,
       <<"https://a.example", "/p">>,
       <<"https://b.example">>,
       <<"[", "t", "]", "(", "https://a.example", ")">>,
       <<"https://youtu.be", "/p">>,
       <<"https://x.com", "/1">>,
       <<"https://b.example", ".png">> >>

\* the pieces numbered from `from` on that are in S, one per line
RECURSIVE PiecesOf(_, _)
PiecesOf(S, from) ==
    IF from > Len(NotePieces) THEN <<>>
    ELSE IF from \notin S THEN PiecesOf(S, from + 1)
    ELSE LET rest == PiecesOf(S, from + 1) IN
         IF rest = <<>> THEN NotePieces[from] ELSE NotePieces[from] \o <<"\n">> \o rest

\* notes of up to n different pieces
NoteContents(n) ==
    { PiecesOf(S, 1) : S \in { T \in SUBSET DOMAIN NotePieces : Cardinality(T) <= n } }

\* the notes directory: a note and a second one after it
NoteDirs == { <<c, <<"https://b.example", "/p">>>> : c \in NoteContents(MaxItems) }

NoteConfigs ==
    { <<"articles", NoteConfig(d, l, t)>> : d \in BOOLEAN, l \in BOOLEAN, t \in BOOLEAN }
    \cup { <<v, NoteConfig(d, TRUE, t)>> : v \in {"inplace", "single"},
                                          d \in BOOLEAN, t \in BOOLEAN }

Markdowns == {<<"md">>}

UrlEnvs ==
    { [kind |-> k, markdown |-> <<>>] :
        k \in {"fetchFails", "convertFails", "twitterFails", "saveFails"} }
    \cup { [kind |-> "ok", markdown |-> m] : m \in Markdowns }

NotesIdle ==
    /\ nVersion = "none"
    /\ nConfig = NoteConfig(FALSE, FALSE, FALSE)
    /\ nInitial = <<>>
    /\ nFiles = <<>>
    /\ nOutput = {}
    /\ npc = "idle"
    /\ nRun = 0
    /\ nIdx = 0
    /\ nUrls = <<>>
    /\ nProcessed = <<>>
    /\ nOriginal = <<>>
    /\ nModified = <<>>
    /\ nCount = 0
    /\ nExit = -1
    /\ nTrace = NoTrace

-----------------------------------------------------------------------------
(* The URL extractor (obsidian-url-extractor/src/index.ts): the todo items *)
(* that hold URLs are taken off the todo list and a note is created for    *)
(* every URL. A file is the sequence of its lines (content.split('\n')), a *)
(* line a sequence of atoms as the text of a note is.                      *)

\* the first index from i on that holds no white space
SkipSpaces(line, i) ==
    LET S == { j \in i .. Len(line) : line[j] # " " }
    IN  IF S = {} THEN Len(line) + 1 ELSE CHOOSE j \in S : \A k \in S : j <= k

\* /^\s*-\s*\[[ x]\]/i.test(line)
isTodoLine(line) ==
    LET dash == SkipSpaces(line, 1)
        box == SkipSpaces(line, dash + 1)
    IN  /\ dash <= Len(line)
        /\ line[dash] = "-"
        /\ box + 2 <= Len(line)
        /\ line[box] = "["
        /\ line[box + 1] \in {" ", "x", "X"}
        /\ line[box + 2] = "]"

\* the targets of the markdown links, then the plain URLs of what is left
extractUrlsFromLine(line) == LinkTargets(line) \o PlainUrls(WithoutLinks(line))

\* createFilenameFromUrl of the extractor: `${hostname}-${lastPart}`, where
\* lastPart is the last part of the path or, without a path, the host
extractorCreateFilenameFromUrl(url) ==
    <<SanitizeAtom(url[1]), "-">> \o createFilenameFromUrl(url)

\* createNoteForUrl: an existing note is left alone; else the note is
\* written, which the file system lets succeed or not
createNoteForUrl(url, notes, writeOk) ==
    LET filename == extractorCreateFilenameFromUrl(url) IN
    IF filename \in DOMAIN notes
    THEN [threw |-> FALSE, existed |-> TRUE, notes |-> notes]
    ELSE IF writeOk
    THEN [threw |-> FALSE, existed |-> FALSE,
          notes |-> (filename :> (url \o <<"\n">>)) @@ notes]
    ELSE [threw |-> TRUE, existed |-> FALSE, notes |-> notes]

(* Inputs *)

TodoUrlA == <<"https://a.example", "/1">>

\* a second URL with the host and the last part of the path of the first
TodoUrlB == <<"https://a.example", "/p", "/1">>

TodoUrlC == <<"https://b.example", "/p">>

OpenBox == <<"-", " ", "[", " ", "]", " ">>

DoneBox == <<"-", " ", "[", "x", "]", " ">>

TodoLines ==
    { <<>>,
      <<"#", " ", "w">>,
      OpenBox \o <<"w">>,
      <<"w", " ">> \o OpenBox,
      TodoUrlC,
      OpenBox \o TodoUrlA,
      DoneBox \o <<"[", "w", "]", "(">> \o TodoUrlB \o <<")">>,
      <<" ", " ">> \o OpenBox \o TodoUrlA \o <<" ">> \o TodoUrlC }

\* the lists of one to n lines
TodoLists(n) == UNION { [1 .. k -> TodoLines] : k \in 1 .. n }

\* the notes directory beforehand: empty, or with a note of the name the
\* first two URLs map to
ExistingNotes ==
    { <<>>,
      extractorCreateFilenameFromUrl(TodoUrlA) :> (TodoUrlA \o <<"\n">>),
      extractorCreateFilenameFromUrl(TodoUrlA) :> <<"w">> }

ExtractIdle ==
    /\ xList = <<>>
    /\ xInitial = <<>>
    /\ xNotes = <<>>
    /\ xFile = <<>>
    /\ xpc = "idle"
    /\ xi = 0
    /\ xUrls = <<>>
    /\ xKeep = <<>>
    /\ xFailed = {}
    /\ xPushes = <<>>

-----------------------------------------------------------------------------
(* The todo archive (obsidian-todo-archive, index.ts): the todo list is    *)
(* copied to an archive file named after today's date and rewritten with   *)
(* a link to the archive and its incomplete tasks                          *)

File(lines) == [exists |-> TRUE, lines |-> lines]

NoFile == [exists |-> FALSE, lines |-> <<>>]

\* a check for a lower-case x only
isCompletedTodo_LowerCase(line) ==
    LET dash == SkipSpaces(line, 1)
        box == SkipSpaces(line, dash + 1)
    IN  /\ dash <= Len(line)
        /\ line[dash] = "-"
        /\ box + 2 <= Len(line)
        /\ line[box] = "["
        /\ line[box + 1] = "x"
        /\ line[box + 2] = "]"

\* /^\s*-\s*\[x\]/i.test(line)
isCompletedTodo(line) ==
    LET dash == SkipSpaces(line, 1)
        box == SkipSpaces(line, dash + 1)
    IN  /\ dash <= Len(line)
        /\ line[dash] = "-"
        /\ box + 2 <= Len(line)
        /\ line[box] = "["
        /\ line[box + 1] \in {"x", "X"}
        /\ line[box + 2] = "]"

parseLine(line) ==
    [line |-> line,
     isCompleted |-> isTodoLine(line) /\ isCompletedTodo(line),
     isTodo |-> isTodoLine(line)]

IsIncompleteTask(line) == parseLine(line).isTodo /\ ~parseLine(line).isCompleted

IsCompletedTask(line) == parseLine(line).isTodo /\ parseLine(line).isCompleted

IsTask(line) == parseLine(line).isTodo

extractIncompleteTasks(content) == SelectSeq(content, IsIncompleteTask)

countCompletedTasks(content) == Len(SelectSeq(content, IsCompletedTask))

countTotalTasks(content) == Len(SelectSeq(content, IsTask))

\* `${archivePrefix}-${today}.md`
ArchiveFilename(archivePrefix, today) == <<archivePrefix, "-", today, ".md">>

\* archiveFilename.replace('.md', ''): the first '.md' is taken out
WithoutMd(name) ==
    LET i == IndexOfAtom(name, ".md", 1) IN
    IF i = 0 THEN name ELSE SubSeq(name, 1, i - 1) \o SubSeq(name, i + 1, Len(name))

ArchiveHeading == <<"#", " ", "Archive">>

ArchiveLink(archiveFilename) ==
    <<"Previous todo list archived to:", " ", "[", "[">>
    \o WithoutMd(archiveFilename) \o <<"]", "]">>

TasksHeading == <<"#", " ", "Previously on tasks">>

\* newContent, as the lines it splits into
NewTodoContent(archiveFilename, incompleteTasks) ==
    <<ArchiveHeading, <<>>, ArchiveLink(archiveFilename), <<>>>>
    \o (IF Len(incompleteTasks) > 0
        THEN <<TasksHeading, <<>>>> \o incompleteTasks
        ELSE <<>>)
    \o << <<>> >>

\* what the try around fs.access ends with: the error thrown in it when the
\* archive exists, the error of fs.access when it does not
AccessError(archive) ==
    IF archive.exists
    THEN [message |-> "Archive file already exists"]
    ELSE [message |-> "ENOENT"]

\* a catch that takes every error for a missing file
ArchiveRethrows_Never(err) == FALSE

\* error instanceof Error && error.message.includes('Archive file already exists')
ArchiveRethrows(err) == err.message = "Archive file already exists"

NoArchiveResult ==
    [archiveFilename |-> <<>>, incompleteTasks |-> <<>>, totalTasks |-> 0,
     completedTasks |-> 0]

(* Inputs *)

Dates == {"2026-01-01", "2026-01-02"}

\* lines of a todo list with what they are: an open task, a task done, or
\* something else
ArchiveShapes ==
    { [line |-> OpenBox \o <<"w">>, class |-> "open"],
      [line |-> <<" ", " ">> \o OpenBox \o TodoUrlA, class |-> "open"],
      [line |-> DoneBox \o <<"w">>, class |-> "done"],
      [line |-> <<"-", " ", "[", "X", "]", " ", "w">>, class |-> "done"],
      [line |-> <<"#", " ", "w">>, class |-> "other"],
      [line |-> <<>>, class |-> "other"],
      [line |-> <<"w", " ">> \o DoneBox, class |-> "other"],
      [line |-> <<"-", " ", "[", "]", " ", "w">>, class |-> "other"] }

ArchiveLists(n) == UNION { [1 .. k -> ArchiveShapes] : k \in 1 .. n }

\* the archives in the notes directory beforehand: none, or one of the
\* first date
ArchiveDirs ==
    { [d \in Dates |-> NoFile],
      [d \in Dates |-> IF d = "2026-01-01" THEN File(<<OpenBox \o <<"w">>>>) ELSE NoFile] }

ArchiveIdle ==
    /\ rShapes = <<>>
    /\ rToday = "none"
    /\ rInitial = [todo |-> NoFile, dir |-> <<>>]
    /\ rTodo = NoFile
    /\ rDir = <<>>
    /\ rpc = "idle"
    /\ rContent = <<>>
    /\ rResult = NoArchiveResult

-----------------------------------------------------------------------------
(* The setup wizards: setup of setup.js, which asks over readline, and     *)
(* runSetup, which asks with inquirer. Both write the answers to .env and  *)
(* ask first when .env exists.                                             *)

WizardVersions == {"readline", "inquirer"}

\* answer.toLowerCase() of the answers gone through
LowerAnswer(answer) ==
    CASE answer = "Y" -> "y"
      [] answer = "YES" -> "yes"
      [] OTHER -> answer

\* askYesNo: the trimmed answer, or the default for an empty one, is yes or y
askYesNo(answer, defaultValue) ==
    LET given == IF answer = "" THEN defaultValue ELSE answer
    IN  LowerAnswer(given) \in {"yes", "y"}

\* the answer to 'Do you want to overwrite it?': askYesNo(..., 'no'), or
\* the boolean of inquirer's confirm
Overwrite(version, answer) ==
    IF version = "readline" THEN askYesNo(answer, "no")
    ELSE answer \in {"y", "Y", "yes", "YES"}

\* the branch that copies .env to .env.backup: if (!shouldWrite) in setup,
\* if (overwrite) in runSetup
BacksUp(version, overwrite) ==
    IF version = "readline" THEN ~overwrite ELSE overwrite

\* shouldWrite when the branch is left without a backup
ShouldWriteWithoutBackup(version, overwrite) ==
    IF version = "readline" THEN overwrite ELSE FALSE

\* shouldWrite when fs.copyFile threw and the catch around the check took
\* the error: what it was before the branch
ShouldWriteAfterFailedCopy(version, overwrite) ==
    IF version = "readline" THEN overwrite ELSE TRUE

(* Inputs *)

WizardAnswers == {"yes", "Y", "no", "n", ""}

\* generateEnvContent for the answers on dry run and link deletion
EnvContents ==
    { <<"DRY_RUN=", d, "\n", "DELETE_LINKS=", l>> :
        d \in {"true", "false"}, l \in {"true", "false"} }

ExistingEnvs ==
    { NoFile,
      File(<<"DRY_RUN=", "true", "\n", "DELETE_LINKS=", "true">>),
      File(<<"GEMINI_API_KEY=", "secret">>) }

ExistingBackups == { NoFile, File(<<"GEMINI_API_KEY=", "older">>) }

WizardIdle ==
    /\ wVersion = "none"
    /\ wContent = <<>>
    /\ wInitial = NoFile
    /\ wEnv = NoFile
    /\ wBackup = NoFile
    /\ wAnswer = "none"
    /\ wShould = FALSE
    /\ wWritten = FALSE
    /\ wpc = "idle"

\* the parts added last, not in use
LaterIdle ==
    /\ NotesIdle
    /\ ExtractIdle
    /\ ArchiveIdle
    /\ WizardIdle

\* the parts added after the first three, not in use
RestIdle ==
    /\ PromptIdle
    /\ ToolIdle
    /\ ApiIdle
    /\ LaterIdle

-----------------------------------------------------------------------------
(* The factory specification: one call per behaviour *)

NoCall == [fn |-> "none", args |-> <<>>]

FactoryIdle ==
    /\ fcall = NoCall
    /\ fpc = "idle"
    /\ service = NoService
    /\ error = NoError

FactoryInit ==
    /\ fcall \in LLMCalls \cup GeminiCalls \cup GeminiLegacyCalls
    /\ fpc = "pending"
    /\ service = NoService
    /\ error = NoError
    /\ MainIdle
    /\ MockIdle
    /\ RestIdle

Finish(out) ==
    /\ service' = out.service
    /\ error' = out.error
    /\ fpc' = IF out.error = NoError THEN "returned" ELSE "thrown"
    /\ UNCHANGED <<fcall, mainVars, mockVars, restVars>>

CallCreateLLMService ==
    /\ fpc = "pending"
    /\ fcall.fn = "createLLMService"
    /\ Finish(createLLMService(fcall.args[1]))

CallCreateGeminiService ==
    /\ fpc = "pending"
    /\ fcall.fn = "createGeminiService"
    /\ Finish(createGeminiService(fcall.args[1], fcall.args[2], fcall.args[3]))

CallCreateGeminiServiceLegacy ==
    /\ fpc = "pending"
    /\ fcall.fn = "createGeminiServiceLegacy"
    /\ Finish(createGeminiServiceLegacy(fcall.args[1], fcall.args[2], fcall.args[3]))

FactoryNext ==
    \/ CallCreateLLMService
    \/ CallCreateGeminiService
    \/ CallCreateGeminiServiceLegacy

FactorySpec == FactoryInit /\ [][FactoryNext]_vars

-----------------------------------------------------------------------------
(* The specification of main: one run of the process per behaviour *)

MainInit ==
    /\ menv \in MainEnvs
    /\ mpc = "validate"
    /\ mService = NoService
    /\ mTwitter = NoService
    /\ files = <<>>
    /\ cur = NoNote
    /\ listed = FALSE
    /\ reads = 0
    /\ writes = 0
    /\ converts = 0
    /\ exitCode = -1
    /\ threw = NoError
    /\ FactoryIdle
    /\ MockIdle
    /\ RestIdle

MainStep ==
    \/ MainValidate
    \/ MainCreateService
    \/ MainAccess
    \/ MainReaddir
    \/ ProcessNoteRead
    \/ ProcessNoteTwitter
    \/ ProcessNoteFetch
    \/ ProcessNoteConvert
    \/ ProcessNoteSave
    \/ MainDone

MainNext == MainStep /\ UNCHANGED <<factoryVars, mockVars, restVars>>

MainSpec == MainInit /\ [][MainNext]_vars

-----------------------------------------------------------------------------
(* The specification of the local fallback: one call per behaviour *)

MockInit ==
    /\ html \in Markups(MaxNodes)
    /\ cpc = "pending"
    /\ markdown = NoOutput
    /\ instances = <<>>
    /\ calls = <<>>
    /\ FactoryIdle
    /\ MainIdle
    /\ RestIdle

MockConvert ==
    /\ cpc = "pending"
    /\ LET out == convertHtmlToMarkdown(html) IN
        /\ cpc' = out.status
        /\ markdown' = out.text
    /\ UNCHANGED <<html, instances, calls, factoryVars, mainVars, restVars>>

MockNext == MockConvert

MockSpec == MockInit /\ [][MockNext]_vars

-----------------------------------------------------------------------------
(* The specification of repeated calls of the local fallback: up to        *)
(* MaxCalls calls, one after the other, each on either instance            *)

RepeatInit ==
    /\ instances = [k \in InstanceIds |-> MockLLMServiceObject]
    /\ calls = <<>>
    /\ html = Undefined
    /\ cpc = "idle"
    /\ markdown = NoOutput
    /\ FactoryIdle
    /\ MainIdle
    /\ RestIdle

RepeatCall ==
    /\ Len(calls) < MaxCalls
    /\ \E k \in InstanceIds, m \in RepeatMarkups, u \in Urls :
         LET out == MockCall(instances[k], m, u) IN
         /\ instances' = [instances EXCEPT ![k] = out.self]
         /\ calls' = Append(calls, [instance |-> k, html |-> m, url |-> u,
                                    status |-> out.status, text |-> out.text])
    /\ UNCHANGED <<html, cpc, markdown, factoryVars, mainVars, restVars>>

RepeatNext == RepeatCall

RepeatSpec == RepeatInit /\ [][RepeatNext]_vars

-----------------------------------------------------------------------------
(* The specification of the prompt builder: one call per behaviour *)

PromptInit ==
    /\ pHtml \in PromptMarkups(MaxPieces)
    /\ ppc = "pending"
    /\ prompt = <<>>
    /\ FactoryIdle
    /\ MainIdle
    /\ MockIdle
    /\ ToolIdle
    /\ ApiIdle
    /\ LaterIdle

CallBuildConversionPrompt ==
    /\ ppc = "pending"
    /\ prompt' = buildConversionPrompt(pHtml)
    /\ ppc' = "returned"
    /\ UNCHANGED <<pHtml, factoryVars, mainVars, mockVars, toolVars, apiVars, laterVars>>

PromptNext == CallBuildConversionPrompt

PromptSpec == PromptInit /\ [][PromptNext]_vars

-----------------------------------------------------------------------------
(* The specification of the external tool backend: one call per behaviour *)

ToolInit ==
    /\ tSelf \in { GeminiServiceInstance(v, c, tt) :
                      v \in ToolVersions, c \in ToolPrograms, tt \in ToolVariants }
    /\ tHtml \in ToolMarkups
    /\ tpc = "start"
    /\ tPrompt = <<>>
    /\ tCommand = <<>>
    /\ tStdin = NoInput
    /\ tEnd = NoEnding
    /\ tResult = <<>>
    /\ tError = NoExecError
    /\ tWarned = FALSE
    /\ FactoryIdle
    /\ MainIdle
    /\ MockIdle
    /\ PromptIdle
    /\ ApiIdle
    /\ LaterIdle

\* the prompt and the command are built and execAsync starts the child
ToolExec ==
    /\ tpc = "start"
    /\ tPrompt' = buildConversionPrompt(tHtml)
    /\ tCommand' = getToolCommand(tSelf)
    /\ tStdin' = ExecStdin(ExecOptions(buildConversionPrompt(tHtml)))
    /\ tpc' = "running"
    /\ UNCHANGED <<tSelf, tHtml, tEnd, tResult, tError, tWarned>>

\* execAsync settles and the call resolves or rejects
ToolSettle ==
    /\ tpc = "running"
    /\ \E child \in Children :
         \E ending \in ExecEndings(child, ExecOptions(tPrompt)) :
            LET out == ToolOutcome(ExecResult(child, ending, ExecOptions(tPrompt))) IN
            /\ tEnd' = [child |-> child, ending |-> ending]
            /\ tpc' = out.status
            /\ tResult' = out.text
            /\ tError' = out.error
            /\ tWarned' = out.warned
    /\ UNCHANGED <<tSelf, tHtml, tPrompt, tCommand, tStdin>>

ToolNext ==
    (ToolExec \/ ToolSettle)
      /\ UNCHANGED <<factoryVars, mainVars, mockVars, promptVars, apiVars, laterVars>>

ToolSpec == ToolInit /\ [][ToolNext]_vars

-----------------------------------------------------------------------------
(* The specification of the hosted API backends: one call per behaviour;   *)
(* the provider's answers to the first and to a second request are drawn   *)
(* at the start                                                            *)

ApiInit ==
    /\ aKind \in ApiKinds
    /\ aResponses \in [1 .. 2 -> Answers]
    /\ apc = "request"
    /\ aRequests = 0
    /\ aDelay = NoDelay
    /\ aSlept = 0
    /\ aResult = <<>>
    /\ aError = NoApiError
    /\ FactoryIdle
    /\ MainIdle
    /\ MockIdle
    /\ PromptIdle
    /\ ToolIdle
    /\ LaterIdle

ApiSettle(out) ==
    /\ apc' = out.status
    /\ aResult' = out.text
    /\ aError' = out.error

\* the request; a rate-limited one with a delay hint leads to the back-off
ApiRequest ==
    /\ apc = "request"
    /\ aRequests' = aRequests + 1
    /\ LET answer == aResponses[1] IN
         IF answer.ok
         THEN ApiSettle(ExtractOutcome(answer.body)) /\ UNCHANGED aDelay
         ELSE IF ShouldRetry(aKind, answer)
              THEN /\ apc' = "backoff"
                   /\ aDelay' = IF RetryDelaySeconds(answer.hint) = NoDelay
                                THEN 0 ELSE RetryDelaySeconds(answer.hint)
                   /\ UNCHANGED <<aResult, aError>>
              ELSE /\ ApiSettle([status |-> "rejected", text |-> <<>>,
                                 error |-> ProviderErrorOf(answer)])
                   /\ UNCHANGED aDelay
    /\ UNCHANGED <<aKind, aResponses, aSlept>>

\* the back-off: the call sleeps for the rounded-up delay
ApiBackoff ==
    /\ apc = "backoff"
    /\ aSlept' = aSlept + aDelay
    /\ apc' = "retry"
    /\ UNCHANGED <<aKind, aResponses, aRequests, aDelay, aResult, aError>>

\* the single retry: whatever fails now is raised to the caller
ApiRetry ==
    /\ apc = "retry"
    /\ aRequests' = aRequests + 1
    /\ LET answer == aResponses[2] IN
         IF answer.ok
         THEN ApiSettle(ExtractOutcome(answer.body))
         ELSE ApiSettle([status |-> "rejected", text |-> <<>>,
                         error |-> ProviderErrorOf(answer)])
    /\ UNCHANGED <<aKind, aResponses, aDelay, aSlept>>

ApiNext ==
    (ApiRequest \/ ApiBackoff \/ ApiRetry)
      /\ UNCHANGED <<factoryVars, mainVars, mockVars, promptVars, toolVars, laterVars>>

ApiSpec == ApiInit /\ [][ApiNext]_vars


-----------------------------------------------------------------------------
(* The specification of the converters' loop: main's loop over the notes   *)
(* of the directory, run up to MaxRuns times                               *)

NotesInit ==
    /\ \E vc \in NoteConfigs : nVersion = vc[1] /\ nConfig = vc[2]
    /\ nInitial \in NoteDirs
    /\ nFiles = nInitial
    /\ nOutput = {}
    /\ npc = "note"
    /\ nRun = 1
    /\ nIdx = 0
    /\ nUrls = <<>>
    /\ nProcessed = <<>>
    /\ nOriginal = <<>>
    /\ nModified = <<>>
    /\ nCount = 0
    /\ nExit = -1
    /\ nTrace = NoTrace
    /\ FactoryIdle
    /\ MainIdle
    /\ MockIdle
    /\ PromptIdle
    /\ ToolIdle
    /\ ApiIdle
    /\ ExtractIdle
    /\ ArchiveIdle
    /\ WizardIdle

\* processNote up to the loop over the URLs: the note is read and its URLs
\* extracted; a note without URLs is left, and so is, by the single-URL
\* converter, a note with several URLs or with processed content
ConvertRead ==
    /\ npc = "note"
    /\ nIdx < Len(nFiles)
    /\ LET file == nIdx + 1
           content == nFiles[file]
           urls == extractUrls(content)
           skip == \/ urls = <<>>
                   \/ nVersion = "single" /\ (Len(urls) > 1 \/ hasProcessedContent(content))
           read == [nTrace EXCEPT
                      !.reads = @ \cup {<<nRun, file>>},
                      !.found = IF skip THEN @
                                ELSE @ \cup { <<nRun, file, urls[i]>> : i \in DOMAIN urls }]
       IN  /\ nIdx' = file
           /\ nOriginal' = content
           /\ nModified' = content
           /\ nProcessed' = <<>>
           /\ nCount' = 0
           /\ nUrls' = IF skip THEN <<>> ELSE urls
           /\ npc' = IF skip THEN "note" ELSE "url"
           /\ nTrace' = IF skip
                        THEN [read EXCEPT !.last = [file |-> file, before |-> content,
                                                    after |-> content, urls |-> urls,
                                                    processed |-> <<>>, written |-> FALSE]]
                        ELSE read
    /\ UNCHANGED <<nVersion, nConfig, nInitial, nFiles, nOutput, nRun, nExit>>

\* one pass of the loop over the URLs
ConvertUrl ==
    /\ npc = "url"
    /\ nUrls # <<>>
    /\ \E env \in UrlEnvs :
         LET url == Head(nUrls)
             what == UrlOutcome(nVersion, nConfig, url, env)
             called == what \in {"failed", "done"}
             seen == [nTrace EXCEPT
                        !.visited = @ \cup {<<nRun, nIdx, url>>},
                        !.calls = IF called THEN @ \cup {<<nRun, nIdx>>} ELSE @,
                        !.failed = IF what = "failed" THEN @ \cup {<<nRun, nIdx, url>>} ELSE @]
             \* the loop goes on, or is over
             onward == IF Tail(nUrls) = <<>> THEN "save" ELSE "url"
             next == CASE what = "done" -> [pc |-> onward, exit |-> nExit]
                       [] what = "failed" ->
                            LET c == OnUrlFailure(nVersion) IN
                            [pc |-> IF c.pc = "url" THEN onward ELSE c.pc,
                             exit |-> IF c.exit = -1 THEN nExit ELSE c.exit]
                       [] OTHER ->
                            [pc |-> IF nVersion = "single" THEN "note" ELSE onward,
                             exit |-> nExit]
         IN  /\ nUrls' = Tail(nUrls)
             /\ npc' = next.pc
             /\ nExit' = next.exit
             /\ nOutput' =
                  IF what = "done" /\ nVersion = "articles" /\ ~nConfig.dryRun
                  THEN nOutput \cup {IF isTwitterUrl(url) THEN TwitterFilename(url)
                                     ELSE createFilenameFromUrl(url)}
                  ELSE nOutput
             /\ nProcessed' =
                  IF what = "done" /\ nVersion = "articles"
                  THEN Append(nProcessed, url) ELSE nProcessed
             /\ nModified' =
                  IF what = "done" /\ nVersion # "articles"
                  THEN ExpandUrl(nVersion, nModified, url, env.markdown) ELSE nModified
             /\ nCount' =
                  IF what = "done" /\ nVersion # "articles" THEN nCount + 1 ELSE nCount
             /\ nFiles' = nFiles
             /\ nTrace' = IF next.pc \in {"note", "done"}
                          THEN [seen EXCEPT !.last =
                                   [file |-> nIdx, before |-> nOriginal, after |-> nFiles[nIdx],
                                    urls |-> extractUrls(nOriginal), processed |-> <<>>,
                                    written |-> FALSE]]
                          ELSE seen
    /\ UNCHANGED <<nVersion, nConfig, nInitial, nRun, nIdx, nOriginal>>

\* after the loop: the links of the processed URLs are deleted from the note
\* (index.js), or the note is rewritten with its URLs expanded; a write that
\* fails is caught by the try around the whole of processNote
ConvertSave ==
    /\ npc = "save"
    /\ \E writeOk \in BOOLEAN :
         LET cleaned == CollapseBlankLines(RemoveUrls(nOriginal, nProcessed))
             wanted ==
                 IF nVersion = "articles"
                 THEN IF DeletesLinks(nConfig, nProcessed) /\ cleaned # nOriginal
                      THEN <<cleaned>> ELSE <<>>
                 ELSE IF nCount > 0 /\ ~nConfig.dryRun THEN <<nModified>> ELSE <<>>
             written == wanted # <<>> /\ writeOk
         IN  /\ nFiles' = IF written THEN [nFiles EXCEPT ![nIdx] = wanted[1]] ELSE nFiles
             /\ nTrace' = [nTrace EXCEPT
                             !.saved = IF written THEN @ \cup {<<nRun, nIdx>>} ELSE @,
                             !.last = [file |-> nIdx, before |-> nOriginal,
                                       after |-> IF written THEN wanted[1] ELSE nFiles[nIdx],
                                       urls |-> extractUrls(nOriginal),
                                       processed |-> nProcessed, written |-> written]]
    /\ npc' = "note"
    /\ UNCHANGED <<nVersion, nConfig, nInitial, nOutput, nRun, nIdx, nUrls, nProcessed,
                   nOriginal, nModified, nCount, nExit>>

\* main's loop is over and main resolves
ConvertDone ==
    /\ npc = "note"
    /\ nIdx = Len(nFiles)
    /\ npc' = "done"
    /\ nExit' = 0
    /\ UNCHANGED <<nVersion, nConfig, nInitial, nFiles, nOutput, nRun, nIdx, nUrls,
                   nProcessed, nOriginal, nModified, nCount, nTrace>>

\* the converter is started again on the same directory; of the runs before
\* it only the notes they rewrote are kept track of
ConvertAgain ==
    /\ npc = "done"
    /\ nExit = 0
    /\ nRun < MaxRuns
    /\ nRun' = nRun + 1
    /\ nIdx' = 0
    /\ npc' = "note"
    /\ nExit' = -1
    /\ nProcessed' = <<>>
    /\ nOriginal' = <<>>
    /\ nModified' = <<>>
    /\ nCount' = 0
    /\ nTrace' = [NoTrace EXCEPT !.saved = nTrace.saved]
    /\ UNCHANGED <<nVersion, nConfig, nInitial, nFiles, nOutput, nUrls>>

NotesNext ==
    (ConvertRead \/ ConvertUrl \/ ConvertSave \/ ConvertDone \/ ConvertAgain)
      /\ UNCHANGED <<factoryVars, mainVars, mockVars, promptVars, toolVars, apiVars,
                     extractVars, archiveVars, wizardVars>>

NotesSpec == NotesInit /\ [][NotesNext]_vars

-----------------------------------------------------------------------------
(* The specification of the URL extractor: processTodoList on a todo list  *)
(* of up to MaxLines lines                                                 *)

ExtractInit ==
    /\ xList \in TodoLists(MaxLines)
    /\ xInitial \in ExistingNotes
    /\ xNotes = xInitial
    /\ xFile = xList
    /\ xpc = "line"
    /\ xi = 1
    /\ xUrls = <<>>
    /\ xKeep = <<>>
    /\ xFailed = {}
    /\ xPushes = [i \in DOMAIN xList |-> 0]
    /\ FactoryIdle
    /\ MainIdle
    /\ MockIdle
    /\ PromptIdle
    /\ ToolIdle
    /\ ApiIdle
    /\ NotesIdle
    /\ ArchiveIdle
    /\ WizardIdle

\* one pass of the loop over the lines, up to the loop over the URLs of a
\* todo item: an empty line, and any line that is no todo item with URLs,
\* is kept
ExtractLine ==
    /\ xpc = "line"
    /\ xi <= Len(xList)
    /\ LET line == xList[xi]
           urls == extractUrlsFromLine(line)
       IN  IF line # <<>> /\ isTodoLine(line) /\ urls # <<>>
           THEN /\ xpc' = "url"
                /\ xUrls' = urls
                /\ UNCHANGED <<xi, xKeep, xPushes>>
           ELSE /\ xKeep' = Append(xKeep, line)
                /\ xPushes' = [xPushes EXCEPT ![xi] = @ + 1]
                /\ xi' = xi + 1
                /\ UNCHANGED <<xpc, xUrls>>
    /\ UNCHANGED <<xList, xInitial, xNotes, xFile, xFailed>>

\* one pass of the loop over the URLs of a todo item: createNoteForUrl; if
\* it throws the line is pushed to linesToKeep and the loop goes on with the
\* next URL; after the last URL the line is not pushed
ExtractUrl ==
    /\ xpc = "url"
    /\ \E writeOk \in BOOLEAN :
         LET result == createNoteForUrl(Head(xUrls), xNotes, writeOk) IN
         /\ xNotes' = result.notes
         /\ IF result.threw
            THEN /\ xKeep' = Append(xKeep, xList[xi])
                 /\ xPushes' = [xPushes EXCEPT ![xi] = @ + 1]
                 /\ xFailed' = xFailed \cup {<<xi, Head(xUrls)>>}
            ELSE UNCHANGED <<xKeep, xPushes, xFailed>>
    /\ xUrls' = Tail(xUrls)
    /\ IF Tail(xUrls) = <<>>
       THEN xpc' = "line" /\ xi' = xi + 1
       ELSE UNCHANGED <<xpc, xi>>
    /\ UNCHANGED <<xList, xInitial, xFile>>

\* fs.writeFile(filePath, linesToKeep.join('\n')): the list is rewritten,
\* or the write fails and processTodoList rejects
ExtractWrite ==
    /\ xpc = "line"
    /\ xi > Len(xList)
    /\ \E writeOk \in BOOLEAN :
         IF writeOk
         THEN xFile' = xKeep /\ xpc' = "resolved"
         ELSE xFile' = xFile /\ xpc' = "rejected"
    /\ UNCHANGED <<xList, xInitial, xNotes, xi, xUrls, xKeep, xFailed, xPushes>>

ExtractNext ==
    (ExtractLine \/ ExtractUrl \/ ExtractWrite)
      /\ UNCHANGED <<factoryVars, mainVars, mockVars, promptVars, toolVars, apiVars,
                     notesVars, archiveVars, wizardVars>>

ExtractSpec == ExtractInit /\ [][ExtractNext]_vars

-----------------------------------------------------------------------------
(* The specification of the todo archive: archiveTodoFile on a todo list   *)
(* of up to MaxLines lines                                                 *)

ArchiveInit ==
    /\ rShapes \in ArchiveLists(MaxLines)
    /\ rToday \in Dates
    /\ rTodo = File([i \in DOMAIN rShapes |-> rShapes[i].line])
    /\ rDir \in ArchiveDirs
    /\ rInitial = [todo |-> rTodo, dir |-> rDir]
    /\ rpc = "read"
    /\ rContent = <<>>
    /\ rResult = NoArchiveResult
    /\ FactoryIdle
    /\ MainIdle
    /\ MockIdle
    /\ PromptIdle
    /\ ToolIdle
    /\ ApiIdle
    /\ NotesIdle
    /\ ExtractIdle
    /\ WizardIdle

\* const content = await fs.readFile(todoPath, 'utf-8')
ArchiveRead ==
    /\ rpc = "read"
    /\ rContent' = rTodo.lines
    /\ rpc' = "check"
    /\ UNCHANGED <<rShapes, rToday, rInitial, rTodo, rDir, rResult>>

\* the try around fs.access(archivePath) and its catch
ArchiveCheck ==
    /\ rpc = "check"
    /\ rpc' = IF ArchiveRethrows(AccessError(rDir[rToday])) THEN "rejected" ELSE "archive"
    /\ UNCHANGED <<rShapes, rToday, rInitial, rTodo, rDir, rContent, rResult>>

\* await fs.writeFile(archivePath, content, 'utf-8')
ArchiveWrite ==
    /\ rpc = "archive"
    /\ \E writeOk \in BOOLEAN :
         IF writeOk
         THEN rDir' = [rDir EXCEPT ![rToday] = File(rContent)] /\ rpc' = "todo"
         ELSE rDir' = rDir /\ rpc' = "rejected"
    /\ UNCHANGED <<rShapes, rToday, rInitial, rTodo, rContent, rResult>>

\* the new content of the todo file is put together and written, and the
\* result returned
ArchiveTodo ==
    /\ rpc = "todo"
    /\ LET archiveFilename == ArchiveFilename("todo-archive", rToday)
           incompleteTasks == extractIncompleteTasks(rContent)
       IN  \E writeOk \in BOOLEAN :
             IF writeOk
             THEN /\ rTodo' = File(NewTodoContent(archiveFilename, incompleteTasks))
                  /\ rResult' = [archiveFilename |-> archiveFilename,
                                 incompleteTasks |-> incompleteTasks,
                                 totalTasks |-> countTotalTasks(rContent),
                                 completedTasks |-> countCompletedTasks(rContent)]
                  /\ rpc' = "resolved"
             ELSE /\ rpc' = "rejected"
                  /\ UNCHANGED <<rTodo, rResult>>
    /\ UNCHANGED <<rShapes, rToday, rInitial, rDir, rContent>>

ArchiveNext ==
    (ArchiveRead \/ ArchiveCheck \/ ArchiveWrite \/ ArchiveTodo)
      /\ UNCHANGED <<factoryVars, mainVars, mockVars, promptVars, toolVars, apiVars,
                     notesVars, extractVars, wizardVars>>

ArchiveSpec == ArchiveInit /\ [][ArchiveNext]_vars

-----------------------------------------------------------------------------
(* The specification of the setup wizards, from the check for an existing  *)
(* .env on                                                                 *)

WizardInit ==
    /\ wVersion \in WizardVersions
    /\ wContent \in EnvContents
    /\ wInitial \in ExistingEnvs
    /\ wEnv = wInitial
    /\ wBackup \in ExistingBackups
    /\ wAnswer = "none"
    /\ wShould = TRUE
    /\ wWritten = FALSE
    /\ wpc = "access"
    /\ FactoryIdle
    /\ MainIdle
    /\ MockIdle
    /\ PromptIdle
    /\ ToolIdle
    /\ ApiIdle
    /\ NotesIdle
    /\ ExtractIdle
    /\ ArchiveIdle

\* await fs.access(envPath): without .env the catch is entered
WizardAccess ==
    /\ wpc = "access"
    /\ wpc' = IF wEnv.exists THEN "ask" ELSE "write"
    /\ UNCHANGED <<wVersion, wContent, wInitial, wEnv, wBackup, wAnswer, wShould,
                   wWritten>>

\* the question whether to overwrite, and the branch on its answer
WizardAsk ==
    /\ wpc = "ask"
    /\ \E answer \in WizardAnswers :
         LET overwrite == Overwrite(wVersion, answer) IN
         /\ wAnswer' = IF overwrite THEN "yes" ELSE "no"
         /\ IF BacksUp(wVersion, overwrite)
            THEN /\ wpc' = "backup"
                 /\ wShould' = ShouldWriteAfterFailedCopy(wVersion, overwrite)
            ELSE /\ wpc' = "write"
                 /\ wShould' = ShouldWriteWithoutBackup(wVersion, overwrite)
    /\ UNCHANGED <<wVersion, wContent, wInitial, wEnv, wBackup, wWritten>>

\* await fs.copyFile(envPath, backupPath); shouldWrite = true. If the copy
\* throws, the catch meant for a missing .env takes the error
WizardBackup ==
    /\ wpc = "backup"
    /\ \E copyOk \in BOOLEAN :
         IF copyOk
         THEN wBackup' = wEnv /\ wShould' = TRUE
         ELSE UNCHANGED <<wBackup, wShould>>
    /\ wpc' = "write"
    /\ UNCHANGED <<wVersion, wContent, wInitial, wEnv, wAnswer, wWritten>>

\* if (shouldWrite) await fs.writeFile(envPath, envContent, 'utf-8')
WizardWrite ==
    /\ wpc = "write"
    /\ IF wShould
       THEN \E writeOk \in BOOLEAN :
              IF writeOk
              THEN wEnv' = File(wContent) /\ wWritten' = TRUE /\ wpc' = "done"
              ELSE wpc' = "rejected" /\ UNCHANGED <<wEnv, wWritten>>
       ELSE wpc' = "cancelled" /\ UNCHANGED <<wEnv, wWritten>>
    /\ UNCHANGED <<wVersion, wContent, wInitial, wBackup, wAnswer, wShould>>

WizardNext ==
    (WizardAccess \/ WizardAsk \/ WizardBackup \/ WizardWrite)
      /\ UNCHANGED <<factoryVars, mainVars, mockVars, promptVars, toolVars, apiVars,
                     notesVars, extractVars, archiveVars>>

WizardSpec == WizardInit /\ [][WizardNext]_vars

-----------------------------------------------------------------------------
(* Properties of the factories *)

FactoryDone == fpc \in {"returned", "thrown"}

\* the first argument, as a configuration object, of a call in the object form
ConfigForm == fcall.args[1].t = "object"

Range(list) == { list[i] : i \in DOMAIN list }

\* what a call came to: the class built, or the error raised
OutcomeKind(s, e) ==
    <<s.class, e.name, IF e.name = "none" THEN "" ELSE e.subject>>

CandidateKinds ==
    {W_api, W_mock, W_ollama, W_openrouter, W_cli, W_gemini, W_kiro, W_claude, W_bogus}

\* the kinds a factory's switch has a case for: those it does not answer with
\* the invalid-serviceType error when every other field is supplied
InvalidKind(out) == out.error.name = "Error" /\ out.error.subject = "serviceType"

LLMAccepted ==
    { w \in CandidateKinds :
        ~InvalidKind(createLLMService(
            LLMConfig(Undefined, Str(w), Str(W_key), Undefined, Undefined, Str(W_key)))) }

GeminiAccepted ==
    { w \in CandidateKinds :
        ~InvalidKind(createGeminiService(
            GeminiConfig(Undefined, Str(w), Str(W_key), Undefined, Undefined),
            Undefined, Undefined)) }

C2_EmptyCommandRejected ==
    (FactoryDone /\ fcall.fn = "createGeminiService") =>
    LET a == fcall.args[1] IN
        /\ (a.t = "object" /\ ~Truthy(a.useMock) /\ a.serviceType = Str(W_cli)
              /\ a.cliCommand = Str(<<>>)) =>
              (fpc = "thrown" /\ error.subject = "CLI_COMMAND" /\ service = NoService)
        /\ (a = Bool(FALSE) /\ fcall.args[2] = Str(<<>>)) =>
              (fpc = "thrown" /\ error.subject = "CLI_COMMAND" /\ service = NoService)

\* C3 (as claimed): a configuration whose discriminant is any of the five
\* kinds (mock, api, ollama, openrouter, cli), with the fields that kind
\* requires, makes createLLMService return the corresponding backend.
KindClass(kind) ==
    CASE kind = W_mock -> {"MockLLMService", "MockGeminiService"}
      [] kind = W_api -> {"GeminiApiService"}
      [] kind = W_ollama -> {"OllamaService"}
      [] kind = W_openrouter -> {"OpenRouterService"}
      [] kind = W_cli -> {"GeminiService"}
      [] OTHER -> {}

FiveKinds == {W_mock, W_api, W_ollama, W_openrouter, W_cli}

\* the configuration carries what its kind requires
C3_Complete(c, fn) ==
    /\ ~Truthy(c.useMock)
    /\ IsString(c.serviceType)
    /\ toLowerCase(c.serviceType.s) = W_api => Truthy(c.apiKey)
    /\ (fn = "createLLMService" /\ toLowerCase(c.serviceType.s) = W_openrouter)
          => Truthy(c.openrouterApiKey)
    /\ (fn = "createGeminiService" /\ toLowerCase(c.serviceType.s) = W_cli) =>
          /\ c.cliCommand.t = "undefined" \/ Truthy(c.cliCommand)
          /\ c.toolType.t = "undefined"
                \/ (IsString(c.toolType)
                      /\ includes(validToolTypes, toLowerCase(c.toolType.s)))

C3_FiveKindsOneFactory ==
    (FactoryDone /\ fcall.fn = "createLLMService" /\ ConfigForm
        /\ C3_Complete(fcall.args[1], fcall.fn)
        /\ toLowerCase(fcall.args[1].serviceType.s) \in FiveKinds) =>
    (fpc = "returned"
        /\ service.class \in KindClass(toLowerCase(fcall.args[1].serviceType.s)))

\* C3 (amended): createLLMService builds the backend of four kinds (mock,
\* api, ollama, openrouter) and rejects cli as an invalid serviceType;
\* createGeminiService builds the backend of three kinds (mock, api, cli) and
\* rejects ollama and openrouter; a call either returns exactly one backend
\* and no error, or an error and no backend.
C3_KindsPerFactory ==
    (FactoryDone /\ fcall.fn \in {"createLLMService", "createGeminiService"}
        /\ ConfigForm /\ C3_Complete(fcall.args[1], fcall.fn)
        /\ toLowerCase(fcall.args[1].serviceType.s) \in FiveKinds) =>
    LET kind == toLowerCase(fcall.args[1].serviceType.s)
        built == IF fcall.fn = "createLLMService"
                 THEN {W_mock, W_api, W_ollama, W_openrouter}
                 ELSE {W_mock, W_api, W_cli}
    IN  /\ kind \in built =>
              (fpc = "returned" /\ service.class \in KindClass(kind) /\ error = NoError)
        /\ kind \notin built =>
              (fpc = "thrown" /\ error.subject = "serviceType" /\ service = NoService)

C3_Witness ==
    /\ fcall.fn = "createLLMService" /\ ConfigForm
    /\ fcall.args[1].serviceType = Str(W_cli)
    /\ ~Truthy(fcall.args[1].useMock)
    /\ fpc = "thrown" /\ error.subject = "serviceType"

\* C4: for a serviceType whose lower-cased value is not an accepted kind (and
\* useMock falsy) the factory throws an error quoting the value as given and
\* enumerating exactly the kinds its own switch accepts, and builds nothing.
C4_InvalidKindEnumerated ==
    (FactoryDone /\ fcall.fn \in {"createLLMService", "createGeminiService"}
        /\ ConfigForm /\ ~Truthy(fcall.args[1].useMock)
        /\ IsString(fcall.args[1].serviceType)) =>
    LET st == fcall.args[1].serviceType.s
        accepted == IF fcall.fn = "createLLMService" THEN LLMAccepted ELSE GeminiAccepted
    IN  toLowerCase(st) \notin accepted =>
            /\ fpc = "thrown" /\ service = NoService
            /\ error.name = "Error" /\ error.subject = "serviceType"
            /\ error.value = st
            /\ Range(error.list) = accepted

C4_Witness ==
    /\ fcall.fn = "createLLMService" /\ ConfigForm
    /\ fcall.args[1].serviceType = Str(toUpperCase(W_bogus))
    /\ fpc = "thrown" /\ error.value = toUpperCase(W_bogus)
    /\ Range(error.list) = {W_api, W_mock, W_ollama, W_openrouter}

\* C5: createGeminiService (useMock false) asked for the external-tool backend
\* with a tool variant that is not gemini, kiro or claude in any letter case
\* fails with an error listing the three variants; a valid variant in any
\* letter case is accepted and the backend stores it lower-cased.
C5_AsksCli ==
    \/ /\ fcall.fn = "createGeminiService" /\ ConfigForm
       /\ ~Truthy(fcall.args[1].useMock)
       /\ IsString(fcall.args[1].serviceType)
       /\ toLowerCase(fcall.args[1].serviceType.s) = W_cli
       /\ Truthy(Default(fcall.args[1].cliCommand, Str(W_gemini)))
    \/ /\ fcall.fn \in {"createGeminiService", "createGeminiServiceLegacy"}
       /\ fcall.args[1] = Bool(FALSE)
       /\ Truthy(Default(fcall.args[2], Str(W_gemini)))

\* the variant the caller gave
C5_Variant == IF ConfigForm THEN fcall.args[1].toolType ELSE fcall.args[3]

C5_ToolVariantValidated ==
    (FactoryDone /\ C5_AsksCli /\ IsString(C5_Variant)) =>
    LET normalized == toLowerCase(C5_Variant.s) IN
    IF normalized \in {W_gemini, W_kiro, W_claude}
    THEN fpc = "returned" /\ service.class = "GeminiService"
            /\ service.toolType = Str(normalized)
    ELSE fpc = "thrown" /\ service = NoService
            /\ error.subject = "CLI_TOOL_TYPE"
            /\ Range(error.list) = {W_gemini, W_kiro, W_claude}

\* C6: createLLMService(true) returns the local fallback backend;
\* createLLMService(false) ends as createLLMService({serviceType: 'api'})
\* does: it throws the apiKey-required error and returns nothing.
C6_LegacyBoolean ==
    (FactoryDone /\ fcall.fn = "createLLMService" /\ fcall.args[1].t = "boolean") =>
    IF fcall.args[1].b
    THEN fpc = "returned" /\ service.class = "MockLLMService" /\ error = NoError
    ELSE /\ fpc = "thrown" /\ service = NoService
         /\ error.subject = "apiKey"
         /\ error = createLLMService([EmptyLLMConfig EXCEPT !.serviceType = Str(W_api)]).error

C6_Witness ==
    /\ fcall.fn = "createLLMService" /\ fcall.args[1] = Bool(FALSE)
    /\ fpc = "thrown" /\ error.subject = "apiKey"

\* C7: whenever config.useMock is truthy createLLMService returns the local
\* fallback backend, whatever serviceType and the credentials hold.
C7_UseMockOverrides ==
    (FactoryDone /\ fcall.fn = "createLLMService" /\ ConfigForm
        /\ Truthy(fcall.args[1].useMock)) =>
    (fpc = "returned" /\ service.class = "MockLLMService" /\ error = NoError)

C7_Witness ==
    /\ fcall.fn = "createLLMService" /\ ConfigForm
    /\ fcall.args[1].useMock = Str(<<"f","a","l","s","e">>)
    /\ fcall.args[1].serviceType = Str(W_openrouter)
    /\ fcall.args[1].openrouterApiKey = Undefined
    /\ fpc = "returned" /\ service.class = "MockLLMService"

\* C8: the outcome of createLLMService (the kind of backend built, or the
\* kind of error raised) is the same for every letter casing of serviceType:
\* it is the outcome for the lower-cased string.
C8_CaseInsensitive ==
    (FactoryDone /\ fcall.fn = "createLLMService" /\ ConfigForm
        /\ IsString(fcall.args[1].serviceType)) =>
    LET lowered == [fcall.args[1] EXCEPT
                      !.serviceType = Str(toLowerCase(fcall.args[1].serviceType.s))]
        out == createLLMService(lowered)
    IN  OutcomeKind(service, error) = OutcomeKind(out.service, out.error)

C8_Witness ==
    /\ fcall.fn = "createLLMService" /\ ConfigForm
    /\ fcall.args[1].serviceType = Str(toUpperCase(W_openrouter))
    /\ ~Truthy(fcall.args[1].useMock)
    /\ fpc = "returned" /\ service.class = "OpenRouterService"

-----------------------------------------------------------------------------
(* Properties of main *)

\* C9: main constructs the backend (validating its configuration) before it
\* lists the notes directory or reads a note; when the construction throws,
\* no note is read or written, no conversion is called, and the process ends
\* with a failure exit code.
C9_ConstructedBeforeWork ==
    /\ (listed \/ reads > 0 \/ writes > 0 \/ converts > 0) =>
          (mService # NoService /\ threw = NoError)
    /\ threw # NoError =>
          (mpc = "exit" /\ exitCode = 1 /\ mService = NoService
            /\ ~listed /\ reads = 0 /\ writes = 0 /\ converts = 0)

C9_Witness ==
    /\ threw # NoError /\ threw.subject = "CLI_TOOL_TYPE"
    /\ menv.dirExists /\ Len(menv.notes) = MaxNotes
    /\ exitCode = 1

-----------------------------------------------------------------------------
(* Properties of the local fallback *)

MockDone == cpc \in {"resolved", "rejected"}

\* C10: for every markup input, absent or empty included, the call resolves
\* and the text begins with a level-1 heading line; for markup with no
\* heading, no title element and no content the text is exactly the
\* placeholder title heading.
C10_NeverRejects ==
    MockDone =>
        /\ cpc = "resolved"
        /\ Len(markdown) >= 2 /\ SubSeq(markdown, 1, 2) = <<"#", " ">>
        /\ (IsString(html) /\ html.nodes = <<>> /\ html.title = <<>>) =>
              markdown = <<"#", " ", "Untitled Article", "\n", "\n">>

\* the body: what follows the title line and its blank line
MockBody == SubSeq(markdown, Len(TitleOf(html)) + 5, Len(markdown))

Count(s, a) == Cardinality({ k \in DOMAIN s : s[k] = a })

\* the nodes left below the main-content area
AreaNodes(nodes) == Descendants(nodes, ContentArea(nodes)) \cap Live(nodes)

\* the block nodes of the area that carry text
TextBlocks(nodes) ==
    { i \in AreaNodes(nodes) :
        nodes[i].tag \in BlockTags /\ trim(TextOf(nodes, i)) # <<>> }

\* the nodes of the area that a block with text holds, the block included;
\* a list holds what its items hold
InBlocks(nodes) ==
    { i \in AreaNodes(nodes) :
        \E b \in AncestorsOrSelf(nodes, i) \cap TextBlocks(nodes) :
            \/ nodes[b].tag \notin {"ul", "ol"}
            \/ \E li \in AncestorsOrSelf(nodes, i) \ {0} :
                  nodes[li].tag = "li" /\ b \in AncestorsOrSelf(nodes, li) }

\* C18: within the main-content area each node's text appears exactly once
\* in the body, there is one bullet per list item and n heading markers per
\* level-n heading, and '<h1>Title</h1><p>Hello</p>' gives the heading line
\* followed by the body line.
C18_EachTextOnce ==
    (MockDone /\ IsString(html)) =>
        LET nodes == html.nodes IN
        /\ cpc = "resolved"
        /\ \A a \in {"x", "y"} :
              Count(MockBody, a) =
                  Cardinality({ i \in InBlocks(nodes) : Count(nodes[i].text, a) > 0 })
        /\ Count(MockBody, "-") =
              Cardinality({ i \in InBlocks(nodes) :
                  /\ nodes[i].tag = "li"
                  /\ \E l \in AncestorsOrSelf(nodes, i) \cap TextBlocks(nodes) :
                        nodes[l].tag \in {"ul", "ol"} })
        /\ Count(MockBody, "#") =
              Cardinality({ i \in TextBlocks(nodes) : nodes[i].tag = "h1" })
              + 2 * Cardinality({ i \in TextBlocks(nodes) : nodes[i].tag = "h2" })
        /\ html = Doc(<<>>, <<Node("h1", 0, "", <<"x">>),
                              Node("p", 0, "", <<" ", "y", " ">>)>>) =>
              markdown = <<"#", " ", "x", "\n", "\n",
                           "#", " ", "x", "\n", "\n", "y", "\n", "\n">>

\* C19: the title is the text of the first level-1 heading when the document
\* has one, else the text of the title element when it has one, else
\* 'Untitled Article'; the title line always carries title text. A heading
\* or a title element without any text counts as absent.
C19_TitleNeverEmpty ==
    (MockDone /\ IsString(html)) =>
        LET nodes == html.nodes
            h1 == First({ i \in Live(nodes) : nodes[i].tag = "h1" })
            stated == IF h1 # 0 /\ TextOf(nodes, h1) # <<>> THEN TextOf(nodes, h1)
                      ELSE IF html.title # <<>> THEN html.title
                      ELSE <<"Untitled Article">>
            line == <<"#", " ">> \o trim(stated) \o <<"\n", "\n">>
        IN  /\ cpc = "resolved"
            /\ Len(markdown) >= Len(line)
            /\ SubSeq(markdown, 1, Len(line)) = line
            /\ trim(stated) # <<>>

\* the first node of the highest-ranking kind of container present; 0, the
\* body, when there is none
PriorityContent(nodes) ==
    LET Of(tag, attr) ==
            First({ i \in Live(nodes) :
                      IF attr = "" THEN nodes[i].tag = tag ELSE nodes[i].attr = attr })
    IN  IF Of("article", "") # 0 THEN Of("article", "")
        ELSE IF Of("main", "") # 0 THEN Of("main", "")
        ELSE IF Of("div", ".content") # 0 THEN Of("div", ".content")
        ELSE IF Of("div", "#content") # 0 THEN Of("div", "#content")
        ELSE Of("div", ".post-content")

\* C26: the body is taken from the container of the highest-ranking kind
\* present (article, main, .content, #content, .post-content), wherever it
\* sits in the document, and from the whole body when there is none.
C26_PriorityCandidate ==
    (MockDone /\ IsString(html)) =>
        LET nodes == html.nodes IN
        /\ cpc = "resolved"
        /\ MockBody =
              EmitBlocks(nodes,
                         { i \in Descendants(nodes, PriorityContent(nodes)) \cap Live(nodes) :
                             nodes[i].tag \in BlockTags }, 1)

-----------------------------------------------------------------------------
(* Properties of the prompt builder *)

PromptDone == ppc = "returned"

\* the lines of the template up to and including the one reporting n
PromptHead(n) == Cat(Cat(PromptIntro, Decimal(n)), PromptChars)

\* 'HTML (n chars):'
LengthLine(n) ==
    Cat(Cat(PromptLine6, Decimal(n)),
        Lit(<<" ", "c", "h", "a", "r", "s", ")", ":">>))

\* '[HTML truncated - too large]'
MarkerWords == Tail(TruncationMarker)

\* C11 as stated: a markup of at most 50,000 characters is in the prompt
\* and the truncation marker is not; of a longer markup the first 50,000
\* characters followed by the marker are in the prompt and the full markup
\* is not; the prompt reports the markup's own length.
C11_PromptAsStated ==
    PromptDone =>
        LET n == TextLength(pHtml) IN
        /\ n <= PromptCap =>
             /\ includesText(prompt, pHtml)
             /\ ~includesText(prompt, TruncationMarker)
        /\ n > PromptCap =>
             /\ includesText(prompt, Cat(substring0(pHtml, PromptCap), TruncationMarker))
             /\ ~includesText(prompt, pHtml)
        /\ includesText(prompt, LengthLine(n))

\* C11 amended: the prompt is the template around the markup itself when
\* the markup has at most 50,000 characters, and around its first 50,000
\* characters immediately followed by the marker when it is longer, with
\* the markup's own length reported; the marker is in the prompt of an
\* uncut markup only if the markup holds the marker's words, and a cut
\* markup is in its prompt in full only if it holds a line break.
C11_PromptEmbedding ==
    PromptDone =>
        LET n == TextLength(pHtml)
            embedded == IF n <= PromptCap
                        THEN pHtml
                        ELSE Cat(substring0(pHtml, PromptCap), TruncationMarker)
        IN  /\ prompt = Cat(Cat(PromptHead(n), embedded), PromptOutro)
            /\ includesText(prompt, LengthLine(n))
            /\ TextLength(prompt) =
                 TextLength(PromptHead(n)) + TextLength(PromptOutro)
                   + (IF n <= PromptCap THEN n
                      ELSE PromptCap + TextLength(TruncationMarker))
            /\ (n <= PromptCap /\ includesText(prompt, TruncationMarker))
                 => includesText(pHtml, MarkerWords)
            /\ (n > PromptCap /\ includesText(prompt, pHtml))
                 => includesText(pHtml, Lit(<<"\n">>))

\* a markup longer than the cap was cut: the marker follows its first
\* 50,000 characters and the markup is not in the prompt in full
C11_Witness ==
    /\ PromptDone
    /\ TextLength(pHtml) > PromptCap
    /\ includesText(prompt, Cat(substring0(pHtml, PromptCap), TruncationMarker))
    /\ ~includesText(prompt, pHtml)

-----------------------------------------------------------------------------
(* Properties of the external tool backend *)

ToolSettled == tpc \in {"resolved", "rejected"}

\* the child ended by itself with exit code 0
ToolCleanExit == tEnd.ending = "exit" /\ tEnd.child.code = 0

\* C13: the call returns text exactly when the child exits with code 0 and
\* its trimmed standard output is not empty, and the text is that trimmed
\* output; output on standard error with exit code 0 is logged as a warning
\* and decides nothing; empty trimmed output after exit code 0 is a failure.
C13_TextIffCleanOutput ==
    ToolSettled =>
        LET text == trimText(tEnd.child.stdout) IN
        /\ (tpc = "resolved") <=> (ToolCleanExit /\ text # <<>>)
        /\ tpc = "resolved" => tResult = text /\ tError = NoExecError
        /\ (ToolCleanExit /\ tEnd.child.stderr # <<>>)
             => (tWarned /\ ((tpc = "resolved") <=> (text # <<>>)))
        /\ (ToolCleanExit /\ text = <<>>) => (tpc = "rejected" /\ tError # NoExecError)

\* the child wrote to both streams and exited with code 0: the call
\* resolved with the trimmed output, which is not the output as written
C13_Witness ==
    /\ tpc = "resolved"
    /\ ToolCleanExit
    /\ tEnd.child.stderr # <<>>
    /\ tWarned
    /\ tResult = trimText(tEnd.child.stdout)
    /\ tResult # tEnd.child.stdout

\* how the child ended, as the error's fields tell it
ToolFailureKind ==
    CASE tEnd.ending = "overflow" -> "maxBuffer"
      [] tEnd.ending = "timeout" -> "killed"
      [] OTHER -> "other"

\* C14: when the child exits with a code other than 0, is killed at the
\* timeout or is killed for exceeding the output cap, the call rejects and
\* returns no text, and the error thrown tells the three apart: the
\* overflow by its code, the kill by its signal and killed flag, the plain
\* exit by its numeric code.
C14_FailuresTellApart ==
    (ToolSettled /\ ~ToolCleanExit) =>
        /\ tpc = "rejected"
        /\ tResult = <<>>
        /\ ToolDiagnosis(tError) = ToolFailureKind
        /\ tEnd.ending = "exit" => tError.code = Num(tEnd.child.code)

\* a child that ran past the timeout was killed and the error says so
C14_Witness ==
    /\ tpc = "rejected"
    /\ tEnd.ending = "timeout"
    /\ tEnd.child.runtime > ToolTimeout
    /\ ToolDiagnosis(tError) = "killed"
    /\ tError.signal = Str(<<"SIGTERM">>)

\* C15: once exec is called the command line is the configured program
\* followed by the variant's fixed flags, the prompt is not in it, and the
\* prompt is what was written to the child's standard input.
C15_PromptOnStdin ==
    tpc \in {"running", "resolved", "rejected"} =>
        /\ tCommand = Cat(Lit(tSelf.cliCommand), ToolFlags(tSelf))
        /\ ~includesText(tCommand, tPrompt)
        /\ tStdin = [written |-> TRUE, data |-> tPrompt]

-----------------------------------------------------------------------------
(* Properties of the hosted API backends *)

ApiSettled == apc \in {"resolved", "rejected"}

\* the answer to the request made last
LastAnswer == aResponses[aRequests]

\* a successful response of one of the shapes that carry no text
ApiNoText(body) ==
    \/ body.shape \in {"none", "empty", "nomessage"}
    \/ body.content = Null
    \/ body.content = Str(<<>>)

\* C12: a call of the hosted or of the second hosted API backend whose
\* provider answers successfully but without generated text (no list, an
\* empty list, a first entry without message, null or empty text) rejects
\* with the no-content error, and no call resolves with an empty text.
C12_NoTextIsNoContent ==
    (ApiSettled /\ LastAnswer.ok) =>
        /\ ApiNoText(LastAnswer.body)
             => (apc = "rejected" /\ aError = NoContentError /\ aResult = <<>>)
        /\ apc = "resolved" => aResult # <<>>

\* the provider answered successfully with an empty list and the call
\* rejected with the no-content error
C12_Witness ==
    /\ apc = "rejected"
    /\ LastAnswer.ok
    /\ LastAnswer.body.shape = "empty"
    /\ aError = NoContentError

\* the seconds each parsable hint stands for, rounded up
HintSeconds(hint) ==
    CASE hint = Str(<<"1", "s">>) -> 1
      [] hint = Str(<<"1", ".", "5", "s">>) -> 2
      [] hint = Str(<<"0", ".", "2", "s">>) -> 1
      [] hint = Str(<<"2", ".", "0", "s">>) -> 2
      [] OTHER -> NoDelay

RateLimited(answer) ==
    ~answer.ok /\ answer.status = 429 /\ HintSeconds(answer.hint) # NoDelay

\* C16: a call of the hosted API backend makes at most two requests; a
\* second request is made exactly when the first was answered 429 with a
\* parsable retry-delay hint, and only after the call slept the rounded-up
\* delay; a failure of the second request is the error the call rejects
\* with; any other failure of the first request rejects without a retry.
C16_SingleRetry ==
    aKind = "hosted" =>
        /\ aRequests <= 2
        /\ apc \in {"backoff", "retry"} => (aRequests = 1 /\ RateLimited(aResponses[1]))
        /\ apc = "retry" => aSlept = HintSeconds(aResponses[1].hint)
        /\ aRequests = 2 =>
             /\ RateLimited(aResponses[1])
             /\ aSlept = HintSeconds(aResponses[1].hint)
        /\ ApiSettled =>
             /\ aRequests = (IF RateLimited(aResponses[1]) THEN 2 ELSE 1)
             /\ ~LastAnswer.ok =>
                  (apc = "rejected" /\ aError = ProviderErrorOf(LastAnswer))

\* a rate-limited call slept two seconds for the hint '1.5s', asked again
\* and rejected with the error of the second request
C16_Witness ==
    /\ aKind = "hosted"
    /\ aResponses[1].hint = Str(<<"1", ".", "5", "s">>)
    /\ aRequests = 2
    /\ aSlept = 2
    /\ apc = "rejected"
    /\ aError = ProviderErrorOf(aResponses[2])
    /\ aResponses[2].status = 500

\* C17: when the second hosted API answers with a status that is not 2xx
\* the call rejects with an error whose message holds the status code and
\* the raw body text; no second request is made and no text is returned.
C17_StatusAndBodyInError ==
    (aKind = "second" /\ ApiSettled /\ ~aResponses[1].ok /\ aResponses[1].status # 0) =>
        /\ apc = "rejected"
        /\ aResult = <<>>
        /\ aRequests = 1
        /\ aSlept = 0
        /\ \E i \in DOMAIN aError.message :
             aError.message[i].k = "status" /\ aError.message[i].v = aResponses[1].status
        /\ \E i \in DOMAIN aError.message :
             aError.message[i].k = "body" /\ aError.message[i].v = aResponses[1].text

\* the second hosted API answered 429 'slow down' and the call rejected
C17_Witness ==
    /\ aKind = "second"
    /\ apc = "rejected"
    /\ aResponses[1].status = 429
    /\ aResponses[1].text = <<"slow down">>
    /\ aRequests = 1
    /\ aError.status = 429

-----------------------------------------------------------------------------
(* Properties of the converters' loop *)

\* C21: a URL whose fetch or conversion fails does not end the batch: main
\* never exits with a failure, and when a run is done every note was read
\* and every URL found in a note that was not skipped was gone through.
C21_FailureNeverAborts ==
    /\ nExit # 1
    /\ npc = "done" =>
          /\ \A f \in DOMAIN nFiles : <<nRun, f>> \in nTrace.reads
          /\ nVersion # "single" => nTrace.found \subseteq nTrace.visited

\* both URLs of the first of two notes failed, in a converter for several
\* URLs, and main is done
C21_Witness ==
    /\ npc = "done"
    /\ nVersion # "single"
    /\ Len(nFiles) = 2
    /\ Cardinality({ x \in nTrace.failed : x[2] = 1 }) = 2
    /\ <<nRun, 2>> \in nTrace.reads

C27_ExpandedOnce ==
    nVersion = "single" =>
        \A x \in nTrace.saved :
            x[1] < nRun =>
                /\ <<nRun, x[2]>> \notin nTrace.calls
                /\ <<nRun, x[2]>> \notin nTrace.saved

\* the first note was rewritten in the first run and read again in a second
\* run that is done
C27_Witness ==
    /\ nVersion = "single"
    /\ npc = "done"
    /\ nRun = 2
    /\ <<1, 1>> \in nTrace.saved
    /\ <<2, 1>> \in nTrace.reads

\* C30: with link deletion on and no dry run, every URL of the note that was
\* not processed still occurs in the note after processNote, and a note of
\* which no URL was processed is not written.
C30_OnlyProcessedRemoved ==
    (nVersion = "articles" /\ nConfig.deleteLinks /\ ~nConfig.dryRun
       /\ nTrace.last.file # 0) =>
        LET last == nTrace.last IN
        /\ \A i \in DOMAIN last.urls :
              (\A j \in DOMAIN last.processed : last.processed[j] # last.urls[i])
                  => includesAtoms(last.after, last.urls[i])
        /\ last.processed = <<>> => (~last.written /\ last.after = last.before)

-----------------------------------------------------------------------------
(* Properties of the todo archive *)

\* the lines of the shapes that are of the class, in their order
RECURSIVE LinesOfClass(_, _)
LinesOfClass(shapes, class) ==
    IF shapes = <<>> THEN <<>>
    ELSE (IF Head(shapes).class = class THEN <<Head(shapes).line>> ELSE <<>>)
         \o LinesOfClass(Tail(shapes), class)

\* C23: archiveTodoFile never overwrites an existing archive: an archive
\* that was there before the call is there unchanged, and if the archive of
\* today's date exists the call rejects after the check, with the todo file
\* as it was and no file written.
C23_ArchiveNeverOverwritten ==
    /\ \A d \in Dates : rInitial.dir[d].exists => rDir[d] = rInitial.dir[d]
    /\ rInitial.dir[rToday].exists =>
         /\ rDir = rInitial.dir
         /\ rTodo = rInitial.todo
         /\ rpc \in {"read", "check", "rejected"}

\* the archive of today's date existed and the call has rejected
C23_Witness ==
    /\ rInitial.dir[rToday].exists
    /\ rpc = "rejected"
    /\ rContent # <<>>

\* C24: after a successful archiveTodoFile the archive holds the lines the
\* todo file had; the todo file is the heading, the link to the archive
\* and, if and only if there is an open task, the 'Previously on tasks'
\* section with exactly the open tasks as they were and in their order; no
\* task done is in it; totalTasks = completedTasks + the number of open tasks.
C24_ArchiveAndNewList ==
    rpc = "resolved" =>
      LET open == LinesOfClass(rShapes, "open")
          done == LinesOfClass(rShapes, "done")
          link == <<"Previous todo list archived to:", " ", "[", "[",
                    "todo-archive", "-", rToday, "]", "]">>
      IN  /\ rDir[rToday] = File(rInitial.todo.lines)
          /\ rTodo.lines = <<ArchiveHeading, <<>>, link, <<>>>>
                           \o (IF open = <<>> THEN <<>>
                               ELSE <<TasksHeading, <<>>>> \o open)
                           \o << <<>> >>
          /\ (TasksHeading \in Range(rTodo.lines)) <=> (open # <<>>)
          /\ Range(done) \cap Range(rTodo.lines) = {}
          /\ rResult.totalTasks = rResult.completedTasks + Len(open)
          /\ rResult.incompleteTasks = open

\* a list with an open task, a task done with a capital X and another line
\* has been archived
C24_Witness ==
    /\ rpc = "resolved"
    /\ Len(LinesOfClass(rShapes, "open")) = 1
    /\ <<"-", " ", "[", "X", "]", " ", "w">> \in Range(LinesOfClass(rShapes, "done"))
    /\ LinesOfClass(rShapes, "other") # <<>>

-----------------------------------------------------------------------------
(* Properties of the URL extractor *)

\* the todo item of line i holds URLs and none of its notes failed
AllHandled(i) ==
    /\ isTodoLine(xList[i])
    /\ extractUrlsFromLine(xList[i]) # <<>>
    /\ ~\E f \in xFailed : f[1] = i

\* the lines from i on that are to stay
RECURSIVE LinesToStay(_)
LinesToStay(i) ==
    IF i > Len(xList) THEN <<>>
    ELSE (IF AllHandled(i) THEN <<>> ELSE <<xList[i]>>) \o LinesToStay(i + 1)

\* C25: processTodoList rewrites the todo file as the list without the todo
\* lines whose URLs were all handled: every other line, a todo line whose
\* note creation failed among them, is there unchanged, once and in the
\* original order.
C25_ListMinusHandled ==
    xpc = "resolved" => xFile = LinesToStay(1)

\* C29: after processTodoList every URL of a todo line that was taken off
\* the list is the content of a note of the notes directory, and a note
\* that was there beforehand is unchanged.
C29_NoUrlLost ==
    xpc = "resolved" =>
      /\ \A i \in DOMAIN xList :
           (isTodoLine(xList[i]) /\ xPushes[i] = 0) =>
             \A u \in Range(extractUrlsFromLine(xList[i])) :
               \E n \in DOMAIN xNotes : xNotes[n] = u \o <<"\n">>
      /\ \A n \in DOMAIN xInitial : xNotes[n] = xInitial[n]

-----------------------------------------------------------------------------
(* Properties of the setup wizards *)

\* C28: when .env exists and the user declines to overwrite it, .env is
\* not written; and whenever an existing .env is written, the user has
\* accepted and .env.backup holds what .env held.
C28_EnvGuarded ==
    wInitial.exists =>
      /\ wAnswer = "no" => (~wWritten /\ wEnv = wInitial)
      /\ wWritten => (wAnswer = "yes" /\ wBackup = wInitial)

====
